---- MODULE Spec2Model ----
(***************************************************************************)
(* Diagram Construction Engine of diagrams-workflow: the process-wide      *)
(* session registry (_diagram_registry), the five DiagramTools operations  *)
(* that act on it, the Service Catalog (CloudServiceMapper) and the input  *)
(* validators (DiagramValidator).                                          *)
(*                                                                         *)
(* Python strings are sequences of one-character strings, so that          *)
(* lower(), replace(), strip(), the identifier pattern and path suffixes   *)
(* are computed on the characters.  None is the value NoneVal.             *)
(***************************************************************************)
EXTENDS Naturals, Sequences, FiniteSets

(***************************************************************************)
(* Bounds of the model.                                                    *)
(***************************************************************************)
\* uuid4() is drawn at most MaxDiagrams times by create_diagram_structure
MaxDiagrams == 1
\* successful add_node / create_cluster / connect_nodes calls, all sessions
MaxOps == 2
\* successful add_node / create_cluster calls of the caller of SpecClusters
MaxClusterOps == 3
\* callers that may be inside render_diagram at the same time
Threads == {"t1", "t2"}

(***************************************************************************)
(* Python values and string methods.                                       *)
(***************************************************************************)
NoneVal == <<"None">>

UpperCase ==
  <<"A", "B", "C", "D", "E", "F", "G", "H", "I", "J", "K", "L", "M",
    "N", "O", "P", "Q", "R", "S", "T", "U", "V", "W", "X", "Y", "Z">>

LowerCase ==
  <<"a", "b", "c", "d", "e", "f", "g", "h", "i", "j", "k", "l", "m",
    "n", "o", "p", "q", "r", "s", "t", "u", "v", "w", "x", "y", "z">>

Digits == <<"0", "1", "2", "3", "4", "5", "6", "7", "8", "9">>

Range(seq) == {seq[i] : i \in 1..Len(seq)}

\* str.isspace() of one ASCII character
Whitespace == {" ", "\t", "\n", "\r", "\f"}

\* the lower-case letter of each upper-case letter
ToLower ==
  [c \in Range(UpperCase) |-> LowerCase[CHOOSE i \in 1..Len(UpperCase) : UpperCase[i] = c]]

\* str.lower()
Lower(s) == [i \in 1..Len(s) |-> IF s[i] \in DOMAIN ToLower THEN ToLower[s[i]] ELSE s[i]]

\* str.replace(old, new) for a one-character old and new
Replace(s, old, new) == [i \in 1..Len(s) |-> IF s[i] = old THEN new ELSE s[i]]

RECURSIVE LStrip(_)
LStrip(s) == IF s # <<>> /\ Head(s) \in Whitespace THEN LStrip(Tail(s)) ELSE s

RECURSIVE RStrip(_)
RStrip(s) ==
  IF s # <<>> /\ s[Len(s)] \in Whitespace
  THEN RStrip(SubSeq(s, 1, Len(s) - 1))
  ELSE s

\* str.strip()
Strip(s) == RStrip(LStrip(s))

\* a string of n copies of the character c
Repeat(c, n) == [i \in 1..n |-> c]

(***************************************************************************)
(* DiagramValidator (validators.py).  Each validator returns "ok" or the   *)
(* kind of the ValidationError it raises.                                  *)
(***************************************************************************)
MAX_ID_LENGTH == 50
MAX_TITLE_LENGTH == 100
MAX_LABEL_LENGTH == 50
MAX_NODES_PER_DIAGRAM == 50
MAX_CONNECTIONS_PER_DIAGRAM == 100
MAX_CLUSTERS_PER_DIAGRAM == 10

IdChars == Range(UpperCase) \cup Range(LowerCase) \cup Range(Digits) \cup {"_", "-"}

\* ID_PATTERN.match(id_value), ID_PATTERN = ^[a-zA-Z0-9_-]+$ : in Python's
\* re, $ also matches just before a newline that ends the string.
IdPatternMatch(s) ==
  LET body == IF s # <<>> /\ s[Len(s)] = "\n" THEN SubSeq(s, 1, Len(s) - 1) ELSE s
  IN  body # <<>> /\ \A i \in 1..Len(body) : body[i] \in IdChars

RESERVED_IDS ==
  { <<"d", "i", "a", "g", "r", "a", "m">>, <<"n", "o", "d", "e">>, <<"c", "l", "u", "s", "t", "e", "r">>, <<"c", "o", "n", "n", "e", "c", "t", "i", "o", "n">>, <<"e", "d", "g", "e">>, <<"r", "o", "o", "t">>, <<"m", "a", "i", "n">>,
    <<"d", "e", "f", "a", "u", "l", "t">>, <<"s", "y", "s", "t", "e", "m">>, <<"a", "d", "m", "i", "n">>, <<"u", "s", "e", "r">>, <<"t", "e", "m", "p">>, <<"t", "m", "p">> }

ValidateId(id_value) ==
  IF id_value = <<>> THEN "empty"
  ELSE IF Len(id_value) > MAX_ID_LENGTH THEN "too_long"
  ELSE IF ~IdPatternMatch(id_value) THEN "invalid_characters"
  ELSE IF Lower(id_value) \in RESERVED_IDS THEN "reserved_word"
  ELSE IF Head(id_value) = "-" \/ id_value[Len(id_value)] = "-" THEN "hyphen"
  ELSE IF Head(id_value) = "_" \/ id_value[Len(id_value)] = "_" THEN "underscore"
  ELSE "ok"

ValidateTitle(title) ==
  IF title = <<>> \/ Strip(title) = <<>> THEN "empty"
  ELSE IF Len(Strip(title)) > MAX_TITLE_LENGTH THEN "too_long"
  ELSE IF \E i \in 1..Len(title) :
            title[i] \in {"<", ">", "\"", "|", "*", "?", "\\", "/", ":"}
       THEN "invalid_characters"
  ELSE "ok"

ValidateLabel(label) ==
  IF label = <<>> \/ Strip(label) = <<>> THEN "empty"
  ELSE IF Len(Strip(label)) > MAX_LABEL_LENGTH THEN "too_long"
  ELSE "ok"

\* validate_diagram_limits with >= in place of >: a count at its ceiling raises
ValidateDiagramLimitsInclusive(node_count, connection_count, cluster_count) ==
  IF node_count >= MAX_NODES_PER_DIAGRAM THEN "too_many_nodes"
  ELSE IF connection_count >= MAX_CONNECTIONS_PER_DIAGRAM THEN "too_many_connections"
  ELSE IF cluster_count >= MAX_CLUSTERS_PER_DIAGRAM THEN "too_many_clusters"
  ELSE "ok"

ValidateDiagramLimits(node_count, connection_count, cluster_count) ==
  IF node_count > MAX_NODES_PER_DIAGRAM THEN "too_many_nodes"
  ELSE IF connection_count > MAX_CONNECTIONS_PER_DIAGRAM THEN "too_many_connections"
  ELSE IF cluster_count > MAX_CLUSTERS_PER_DIAGRAM THEN "too_many_clusters"
  ELSE "ok"

(***************************************************************************)
(* CloudServiceMapper (diagram_tools.py).  A provider's table keeps the    *)
(* order of the dict literal, which is the order of the keys listed in     *)
(* the error of a miss.                                                    *)
(***************************************************************************)
Service(key, module_path, class_name, node_type) ==
  [key |-> key, module_path |-> module_path, class_name |-> class_name,
   node_type |-> node_type]

AwsServices ==
  <<
    Service(<<"e", "c", "2">>, "diagrams.aws.compute", "EC2", "compute"),
    Service(<<"l", "a", "m", "b", "d", "a">>, "diagrams.aws.compute", "Lambda", "compute"),
    Service(<<"e", "c", "s">>, "diagrams.aws.compute", "ECS", "compute"),
    Service(<<"e", "k", "s">>, "diagrams.aws.compute", "EKS", "compute"),
    Service(<<"f", "a", "r", "g", "a", "t", "e">>, "diagrams.aws.compute", "Fargate", "compute"),
    Service(<<"b", "a", "t", "c", "h">>, "diagrams.aws.compute", "Batch", "compute"),
    Service(<<"r", "d", "s">>, "diagrams.aws.database", "RDS", "database"),
    Service(<<"d", "y", "n", "a", "m", "o", "d", "b">>, "diagrams.aws.database", "Dynamodb", "database"),
    Service(<<"r", "e", "d", "s", "h", "i", "f", "t">>, "diagrams.aws.database", "Redshift", "database"),
    Service(<<"e", "l", "a", "s", "t", "i", "c", "a", "c", "h", "e">>, "diagrams.aws.database", "ElastiCache", "database"),
    Service(<<"d", "o", "c", "u", "m", "e", "n", "t", "d", "b">>, "diagrams.aws.database", "DocumentDB", "database"),
    Service(<<"s", "3">>, "diagrams.aws.storage", "S3", "storage"),
    Service(<<"e", "b", "s">>, "diagrams.aws.storage", "EBS", "storage"),
    Service(<<"e", "f", "s">>, "diagrams.aws.storage", "EFS", "storage"),
    Service(<<"a", "l", "b">>, "diagrams.aws.network", "ALB", "network"),
    Service(<<"e", "l", "b">>, "diagrams.aws.network", "ELB", "network"),
    Service(<<"c", "l", "o", "u", "d", "f", "r", "o", "n", "t">>, "diagrams.aws.network", "CloudFront", "network"),
    Service(<<"a", "p", "i", "g", "a", "t", "e", "w", "a", "y">>, "diagrams.aws.network", "APIGateway", "network"),
    Service(<<"r", "o", "u", "t", "e", "5", "3">>, "diagrams.aws.network", "Route53", "network"),
    Service(<<"v", "p", "c">>, "diagrams.aws.network", "VPC", "network")
  >>

GcpServices ==
  <<
    Service(<<"g", "c", "e">>, "diagrams.gcp.compute", "ComputeEngine", "compute"),
    Service(<<"c", "l", "o", "u", "d", "_", "f", "u", "n", "c", "t", "i", "o", "n", "s">>, "diagrams.gcp.compute", "Functions", "compute"),
    Service(<<"g", "k", "e">>, "diagrams.gcp.compute", "GKE", "compute"),
    Service(<<"c", "l", "o", "u", "d", "_", "r", "u", "n">>, "diagrams.gcp.compute", "Run", "compute"),
    Service(<<"c", "l", "o", "u", "d", "_", "s", "q", "l">>, "diagrams.gcp.database", "SQL", "database"),
    Service(<<"f", "i", "r", "e", "s", "t", "o", "r", "e">>, "diagrams.gcp.database", "Firestore", "database"),
    Service(<<"b", "i", "g", "t", "a", "b", "l", "e">>, "diagrams.gcp.database", "Bigtable", "database"),
    Service(<<"c", "l", "o", "u", "d", "_", "s", "t", "o", "r", "a", "g", "e">>, "diagrams.gcp.storage", "Storage", "storage"),
    Service(<<"p", "e", "r", "s", "i", "s", "t", "e", "n", "t", "_", "d", "i", "s", "k">>, "diagrams.gcp.storage", "PersistentDisk", "storage"),
    Service(<<"c", "l", "o", "u", "d", "_", "l", "o", "a", "d", "_", "b", "a", "l", "a", "n", "c", "e", "r">>, "diagrams.gcp.network", "LoadBalancer", "network"),
    Service(<<"c", "l", "o", "u", "d", "_", "d", "n", "s">>, "diagrams.gcp.network", "DNS", "network")
  >>

AzureServices ==
  <<
    Service(<<"v", "m">>, "diagrams.azure.compute", "VM", "compute"),
    Service(<<"f", "u", "n", "c", "t", "i", "o", "n", "s">>, "diagrams.azure.compute", "FunctionApps", "compute"),
    Service(<<"a", "k", "s">>, "diagrams.azure.compute", "AKS", "compute"),
    Service(<<"c", "o", "n", "t", "a", "i", "n", "e", "r", "_", "i", "n", "s", "t", "a", "n", "c", "e", "s">>, "diagrams.azure.compute", "ContainerInstances", "compute"),
    Service(<<"s", "q", "l", "_", "d", "a", "t", "a", "b", "a", "s", "e">>, "diagrams.azure.database", "SQLDatabases", "database"),
    Service(<<"c", "o", "s", "m", "o", "s", "_", "d", "b">>, "diagrams.azure.database", "CosmosDb", "database"),
    Service(<<"b", "l", "o", "b", "_", "s", "t", "o", "r", "a", "g", "e">>, "diagrams.azure.storage", "BlobStorage", "storage"),
    Service(<<"d", "i", "s", "k", "_", "s", "t", "o", "r", "a", "g", "e">>, "diagrams.azure.storage", "DiskStorage", "storage"),
    Service(<<"l", "o", "a", "d", "_", "b", "a", "l", "a", "n", "c", "e", "r">>, "diagrams.azure.network", "LoadBalancer", "network"),
    Service(<<"a", "p", "p", "l", "i", "c", "a", "t", "i", "o", "n", "_", "g", "a", "t", "e", "w", "a", "y">>, "diagrams.azure.network", "ApplicationGateway", "network")
  >>

Providers == {"aws", "gcp", "azure"}

SERVICE_MAPPINGS(provider) ==
  CASE provider = "aws" -> AwsServices
    [] provider = "gcp" -> GcpServices
    [] provider = "azure" -> AzureServices

\* a miss whose message names no key
ServiceKeysOmitted(provider) == <<>>

ServiceKeys(provider) ==
  [i \in 1..Len(SERVICE_MAPPINGS(provider)) |-> SERVICE_MAPPINGS(provider)[i].key]

\* service.lower().replace("-", "_").replace(" ", "_")
ServiceKey(service) == Replace(Replace(Lower(service), "-", "_"), " ", "_")

\* get_node_class that answers a hit with the first entry of the table
GetNodeClassFirstEntry(service, provider) ==
  LET table == SERVICE_MAPPINGS(provider)
  IN  IF \A i \in 1..Len(table) : table[i].key # ServiceKey(service)
      THEN [ok |-> FALSE, error |-> "service_not_found", available |-> ServiceKeys(provider)]
      ELSE [ok |-> TRUE, class |-> <<table[1].module_path, table[1].class_name>>,
            node_type |-> table[1].node_type]

\* get_node_class that looks the key up in the tables of all providers
GetNodeClassAnyProvider(service, provider) ==
  LET table == AwsServices \o GcpServices \o AzureServices
      key   == ServiceKey(service)
  IN  IF \A i \in 1..Len(table) : table[i].key # key
      THEN [ok |-> FALSE, error |-> "service_not_found", available |-> ServiceKeys(provider)]
      ELSE LET e == table[CHOOSE i \in 1..Len(table) : table[i].key = key]
           IN  [ok |-> TRUE, class |-> <<e.module_path, e.class_name>>,
                node_type |-> e.node_type]

\* get_node_class: the table entry of the key, or the ValueError of a miss
\* with the provider's keys.  The import of a class the table names is taken
\* to succeed.
GetNodeClass(service, provider) ==
  LET table == SERVICE_MAPPINGS(provider)
      key   == ServiceKey(service)
  IN  IF provider \notin Providers
      THEN [ok |-> FALSE, error |-> "unsupported_provider", available |-> <<>>]
      ELSE IF \A i \in 1..Len(table) : table[i].key # key
      THEN [ok |-> FALSE, error |-> "service_not_found", available |-> ServiceKeys(provider)]
      ELSE LET e == table[CHOOSE i \in 1..Len(table) : table[i].key = key]
           IN  [ok |-> TRUE, class |-> <<e.module_path, e.class_name>>,
                node_type |-> e.node_type]


(***************************************************************************)
(* ServiceNameNormalizer (validators.py).                                  *)
(***************************************************************************)
Alias(key, target) == [key |-> key, target |-> target]

SERVICE_ALIASES ==
  <<
    Alias(<<"e", "l", "a", "s", "t", "i", "c", "_", "c", "o", "m", "p", "u", "t", "e", "_", "c", "l", "o", "u", "d">>, <<"e", "c", "2">>),
    Alias(<<"e", "l", "a", "s", "t", "i", "c", "_", "c", "o", "n", "t", "a", "i", "n", "e", "r", "_", "s", "e", "r", "v", "i", "c", "e">>, <<"e", "c", "s">>),
    Alias(<<"e", "l", "a", "s", "t", "i", "c", "_", "k", "u", "b", "e", "r", "n", "e", "t", "e", "s", "_", "s", "e", "r", "v", "i", "c", "e">>, <<"e", "k", "s">>),
    Alias(<<"r", "e", "l", "a", "t", "i", "o", "n", "a", "l", "_", "d", "a", "t", "a", "b", "a", "s", "e", "_", "s", "e", "r", "v", "i", "c", "e">>, <<"r", "d", "s">>),
    Alias(<<"s", "i", "m", "p", "l", "e", "_", "s", "t", "o", "r", "a", "g", "e", "_", "s", "e", "r", "v", "i", "c", "e">>, <<"s", "3">>),
    Alias(<<"a", "p", "p", "l", "i", "c", "a", "t", "i", "o", "n", "_", "l", "o", "a", "d", "_", "b", "a", "l", "a", "n", "c", "e", "r">>, <<"a", "l", "b">>),
    Alias(<<"e", "l", "a", "s", "t", "i", "c", "_", "l", "o", "a", "d", "_", "b", "a", "l", "a", "n", "c", "e", "r">>, <<"e", "l", "b">>),
    Alias(<<"a", "p", "i", "_", "g", "a", "t", "e", "w", "a", "y">>, <<"a", "p", "i", "g", "a", "t", "e", "w", "a", "y">>),
    Alias(<<"c", "o", "m", "p", "u", "t", "e", "_", "e", "n", "g", "i", "n", "e">>, <<"g", "c", "e">>),
    Alias(<<"g", "o", "o", "g", "l", "e", "_", "k", "u", "b", "e", "r", "n", "e", "t", "e", "s", "_", "e", "n", "g", "i", "n", "e">>, <<"g", "k", "e">>),
    Alias(<<"c", "l", "o", "u", "d", "_", "f", "u", "n", "c", "t", "i", "o", "n">>, <<"c", "l", "o", "u", "d", "_", "f", "u", "n", "c", "t", "i", "o", "n", "s">>),
    Alias(<<"g", "o", "o", "g", "l", "e", "_", "c", "l", "o", "u", "d", "_", "s", "t", "o", "r", "a", "g", "e">>, <<"c", "l", "o", "u", "d", "_", "s", "t", "o", "r", "a", "g", "e">>),
    Alias(<<"c", "l", "o", "u", "d", "_", "l", "o", "a", "d", "_", "b", "a", "l", "a", "n", "c", "i", "n", "g">>, <<"c", "l", "o", "u", "d", "_", "l", "o", "a", "d", "_", "b", "a", "l", "a", "n", "c", "e", "r">>),
    Alias(<<"v", "i", "r", "t", "u", "a", "l", "_", "m", "a", "c", "h", "i", "n", "e">>, <<"v", "m">>),
    Alias(<<"a", "z", "u", "r", "e", "_", "k", "u", "b", "e", "r", "n", "e", "t", "e", "s", "_", "s", "e", "r", "v", "i", "c", "e">>, <<"a", "k", "s">>),
    Alias(<<"f", "u", "n", "c", "t", "i", "o", "n", "_", "a", "p", "p", "s">>, <<"f", "u", "n", "c", "t", "i", "o", "n", "s">>),
    Alias(<<"s", "q", "l", "_", "d", "b">>, <<"s", "q", "l", "_", "d", "a", "t", "a", "b", "a", "s", "e">>),
    Alias(<<"b", "l", "o", "b">>, <<"b", "l", "o", "b", "_", "s", "t", "o", "r", "a", "g", "e">>)
  >>

\* str.startswith(prefix), str.endswith(suffix)
StartsWith(s, prefix) ==
  Len(s) >= Len(prefix) /\ SubSeq(s, 1, Len(prefix)) = prefix

EndsWith(s, suffix) ==
  Len(s) >= Len(suffix) /\ SubSeq(s, Len(s) - Len(suffix) + 1, Len(s)) = suffix

\* the characters of [-\s]
Separators == Whitespace \cup {"-"}

RECURSIVE SkipSeparators(_)
SkipSeparators(s) ==
  IF s # <<>> /\ Head(s) \in Separators THEN SkipSeparators(Tail(s)) ELSE s

\* re.sub(r"[-\s]+", "_", s): every run of separators becomes one underscore
RECURSIVE SubSeparators(_)
SubSeparators(s) ==
  IF s = <<>> THEN <<>>
  ELSE IF Head(s) \in Separators THEN <<"_">> \o SubSeparators(SkipSeparators(s))
  ELSE <<Head(s)>> \o SubSeparators(Tail(s))

PREFIXES == << <<"a", "w", "s", "_">>, <<"a", "m", "a", "z", "o", "n", "_">>, <<"g", "o", "o", "g", "l", "e", "_">>, <<"g", "c", "p", "_">>, <<"a", "z", "u", "r", "e", "_">>, <<"m", "i", "c", "r", "o", "s", "o", "f", "t", "_">> >>

SUFFIXES == << <<"_", "s", "e", "r", "v", "i", "c", "e">>, <<"_", "s", "e", "r", "v", "i", "c", "e", "s">> >>

\* the least index of a set of indices: the entry a loop with break stops at
First(hits) == CHOOSE i \in hits : \A j \in hits : i <= j

\* for prefix in prefixes: if startswith: cut it; break
RemovePrefix(s) ==
  LET hits == {i \in 1..Len(PREFIXES) : StartsWith(s, PREFIXES[i])}
  IN  IF hits = {} THEN s
      ELSE SubSeq(s, Len(PREFIXES[First(hits)]) + 1, Len(s))

\* for suffix in suffixes: if endswith: cut it; break
RemoveSuffix(s) ==
  LET hits == {i \in 1..Len(SUFFIXES) : EndsWith(s, SUFFIXES[i])}
  IN  IF hits = {} THEN s
      ELSE SubSeq(s, 1, Len(s) - Len(SUFFIXES[First(hits)]))

\* SERVICE_ALIASES.get(normalized, normalized)
ApplyAlias(normalized) ==
  LET hits == {i \in 1..Len(SERVICE_ALIASES) : SERVICE_ALIASES[i].key = normalized}
  IN  IF hits = {} THEN normalized
      ELSE SERVICE_ALIASES[First(hits)].target

NormalizeServiceName(service) ==
  IF service = <<>> THEN service
  ELSE ApplyAlias(RemoveSuffix(RemovePrefix(SubSeparators(Strip(Lower(service))))))

\* sub in s, of two strings
Contains(s, sub) ==
  \E i \in 0..(Len(s) - Len(sub)) : SubSeq(s, i + 1, i + Len(sub)) = sub

\* _similarity_score(s1, s2) as the fraction <<numerator, denominator>>:
\* the characters the two strings share over the characters of either
SimilarityScore(s1, s2) ==
  LET s1_chars == Range(Lower(s1))
      s2_chars == Range(Lower(s2))
  IN  IF s1 = <<>> \/ s2 = <<>> THEN <<0, 1>>
      ELSE <<Cardinality(s1_chars \cap s2_chars), Cardinality(s1_chars \cup s2_chars)>>

\* score > 0.6
AboveThreshold(score) == score[1] * 5 > 3 * score[2]

\* the "Partial matches" loop
PartialMatches(normalized, available) ==
  LET Partial(key) == Contains(key, normalized) \/ Contains(normalized, key)
  IN  SelectSeq(available, Partial)

\* suggest_services whose "Fuzzy matches" loop runs whatever was found
FuzzyMatchesAlways(suggestions, normalized, available) ==
  LET Fuzzy(key) == AboveThreshold(SimilarityScore(normalized, key))
  IN  SelectSeq(available, Fuzzy)

\* the "Fuzzy matches" loop, entered when nothing was found
FuzzyMatches(suggestions, normalized, available) ==
  LET Fuzzy(key) == AboveThreshold(SimilarityScore(normalized, key))
  IN  IF suggestions = <<>> THEN SelectSeq(available, Fuzzy) ELSE <<>>

\* suggestions[:5]
MAX_SUGGESTIONS == 5

SuggestServices(service, provider) ==
  LET normalized  == NormalizeServiceName(service)
      available   == ServiceKeys(provider)
      exact       == IF normalized \in Range(available) THEN <<normalized>> ELSE <<>>
      suggestions == exact \o PartialMatches(normalized, available)
      all         == suggestions \o FuzzyMatches(suggestions, normalized, available)
  IN  SubSeq(all, 1, IF Len(all) < MAX_SUGGESTIONS THEN Len(all) ELSE MAX_SUGGESTIONS)

(***************************************************************************)
(* Inputs the callers draw from.                                           *)
(***************************************************************************)
\* str(uuid4()): the k-th id drawn is k; an id not drawn yet names no session
DiagramIds == 1..MaxDiagrams

Directions == {"TB"}
\* st_size of the file the renderer leaves: empty, or not
FileSizes == {0, 1024}
\* what the renderer does: raise, write its target, or close without a file
RenderOutcomes == {"raise", "write", "skip"}

\* Spec, concurrent callers: one input of each kind
Titles == { <<"W", "e", "b", " ", "A", "p", "p">> }
FilenameInputs == { NoneVal }
NodeIdInputs == { <<"w", "e", "b", "1">> }
\* (service, provider)
ServiceInputs == { <<<<"E", "C", "2">>, "aws">> }
LabelInputs == { <<"W", "e", "b">> }
ClusterIdInputs == { <<"t", "i", "e", "r">> }
ClusterRefInputs == { NoneVal }
ConnectionLabelInputs == { NoneVal }
BidirectionalInputs == {FALSE}

\* SpecBuild, one caller building a diagram: two node ids, a hit and a miss
\* of the catalog, a cluster reference that may or may not name a cluster
BuildNodeIds == { <<"w", "e", "b", "1">>, <<"d", "b", "1">> }
BuildServices == { <<<<"E", "C", "2">>, "aws">>, <<<<"b", "o", "g", "u", "s">>, "aws">> }
BuildClusterRefs == { NoneVal, <<"t", "i", "e", "r">> }

\* SpecInputs, titles, ids and labels the validators accept and reject
InputTitles == { <<"W", "e", "b", " ", "A", "p", "p">>, <<>>, <<" ", " ">>, <<"a", "<", "b">>, Repeat("x", MAX_TITLE_LENGTH + 1) }
InputIds == { <<"w", "e", "b", "-", "1">>, <<"d", "i", "a", "g", "r", "a", "m">>, <<"a", " ", "b">>, Repeat("a", MAX_ID_LENGTH + 1) }
InputLabels == { <<"W", "e", "b", " ", "S", "e", "r", "v", "e", "r">>, <<>> }
InputServices == { <<<<"E", "C", "2">>, "aws">>, <<<<"b", "o", "g", "u", "s">>, "aws">> }

\* SpecClusters, two cluster ids create_cluster takes, and the cluster
\* references of add_node: None, the two ids, and an id of no cluster
ClusterPair == { <<"t", "i", "e", "r">>, <<>> }
ClusterPairRefs == { NoneVal, <<"t", "i", "e", "r">>, <<>>, <<"d", "a", "t", "a">> }

\* SpecCatalog, service names as callers spell them: hits of each provider's
\* table in upper case, with a space and with a hyphen, a name no table
\* holds, and a key of another provider's table
CatalogServices ==
  { <<<<"E", "C", "2">>, "aws">>, <<<<"C", "l", "o", "u", "d", " ", "S", "Q", "L">>, "gcp">>, <<<<"b", "l", "o", "b", "-", "s", "t", "o", "r", "a", "g", "e">>, "azure">>,
    <<<<"b", "o", "g", "u", "s">>, "aws">>, <<<<"s", "3">>, "gcp">> }

(***************************************************************************)
(* State.                                                                  *)
(***************************************************************************)
VARIABLES
  registry,  \* the keys of _diagram_registry
  heap,      \* the session dict each key refers to, while anything refers to it
  issued,    \* how many diagram ids uuid4() has produced
  files,     \* temp_dir: file name -> size in bytes
  pc,        \* per thread: where it is inside render_diagram
  local,     \* per thread: render_diagram's diagram_id and output_path
  ret,       \* the call that returned last and its ToolResult
  renderOk,  \* history: per diagram id, render_diagram calls that returned success
  okCalls    \* history: per diagram id, builder calls that returned success

vars == <<registry, heap, issued, files, pc, local, ret, renderOk, okCalls>>

(***************************************************************************)
(* Python dicts keep insertion order: a dict is a sequence of entries      *)
(* with distinct keys; assigning to a present key keeps its place.         *)
(***************************************************************************)
DictKeys(d) == {d[i].key : i \in 1..Len(d)}

DictGet(d, k) == d[CHOOSE i \in 1..Len(d) : d[i].key = k]

\* an assignment that moves a present key to the end (del d[k]; d[k] = v)
DictSetMoveToEnd(d, entry) ==
  LET Other(e) == e.key # entry.key
  IN  Append(SelectSeq(d, Other), entry)

\* d[k] = v
DictSet(d, entry) ==
  IF entry.key \in DictKeys(d)
  THEN [i \in 1..Len(d) |-> IF d[i].key = entry.key THEN entry ELSE d[i]]
  ELSE Append(d, entry)

\* bool(s) of an optional string: None and "" are false
Truthy(s) == s # NoneVal /\ s # <<>>

(***************************************************************************)
(* FileManager (file_manager.py) and pathlib.                              *)
(***************************************************************************)
\* generate_filename("png"): "diagram_<uuid4>.png"; the k-th session's draw is k
GenerateFilename(k) == <<"d", "i", "a", "g", "r", "a", "m", "_">> \o <<Digits[k + 1]>> \o <<".", "p", "n", "g">>

\* get_temp_path(filename): every file lives in temp_dir, so the name is the path
GetTempPath(filename) == filename

\* PurePath.suffix: from the last dot, unless it is the first or last character
SuffixStart(name) ==
  LET dots == {i \in 2..(Len(name) - 1) : name[i] = "."}
  IN  IF dots = {} THEN Len(name) + 1
      ELSE CHOOSE i \in dots : \A j \in dots : j <= i

\* output_path.with_suffix("")
WithSuffixEmpty(path) == SubSeq(path, 1, SuffixStart(path) - 1)

\* the file Diagram(filename=...) writes when its context closes
RendererTarget(output_path) == WithSuffixEmpty(output_path) \o <<".", "p", "n", "g">>

\* render_diagram without the check of the output file
PathExistsAlways(fs, path) == TRUE

\* output_path.exists()
PathExists(fs, path) == path \in DOMAIN fs

\* get_file_size(path): st_size as <<size>>, or <<>> for the None of a failed stat
GetFileSize(fs, path) == IF path \in DOMAIN fs THEN <<fs[path]>> ELSE <<>>

\* the renderer writes (or rewrites) its target with size bytes
WriteFile(fs, path, size) ==
  [p \in DOMAIN fs \cup {path} |-> IF p = path THEN size ELSE fs[p]]

(***************************************************************************)
(* ToolResult (schemas.py) and the history counters.                       *)
(***************************************************************************)
\* op and diagram_id name the call; success, result and error are the
\* ToolResult; detail is what the error message quotes besides the id.
\* raised tells a call that ended in an exception instead of a ToolResult.
Success(op, diagram_id, result) ==
  [op |-> op, diagram_id |-> diagram_id, raised |-> FALSE, success |-> TRUE,
   result |-> result, error |-> "None", detail |-> NoneVal]

Failure(op, diagram_id, error, detail) ==
  [op |-> op, diagram_id |-> diagram_id, raised |-> FALSE, success |-> FALSE,
   result |-> NoneVal, error |-> error, detail |-> detail]

\* an exception that leaves the call: the caller gets no ToolResult
Raised(op, diagram_id, exception) ==
  [op |-> op, diagram_id |-> diagram_id, raised |-> TRUE, success |-> FALSE,
   result |-> NoneVal, error |-> exception, detail |-> NoneVal]

NoCalls == [add_node |-> 0, create_cluster |-> 0, nested_cluster |-> 0, connect_nodes |-> 0]

TotalOps(calls) ==
  LET RECURSIVE Sum(_)
      Sum(k) == IF k = 0 THEN 0
                ELSE calls[k].add_node + calls[k].create_cluster
                     + calls[k].connect_nodes + Sum(k - 1)
  IN  Sum(MaxDiagrams)

\* the objects something still refers to, the registry or a render in
\* flight, are kept
Collect(objects, keys, pcs, locals) ==
  LET referenced ==
        keys \cup {locals[t].diagram_id : t \in {u \in Threads : pcs[u] # "idle"}}
  IN  [k \in DOMAIN objects \cap referenced |-> objects[k]]

Init ==
  /\ registry = {}
  /\ heap = <<>>
  /\ issued = 0
  /\ files = <<>>
  /\ pc = [t \in Threads |-> "idle"]
  /\ local = [t \in Threads |-> [diagram_id |-> 0, output_path |-> <<>>]]
  /\ ret = Failure("none", 0, "None", NoneVal)
  /\ renderOk = [k \in DiagramIds |-> 0]
  /\ okCalls = [k \in DiagramIds |-> NoCalls]

(***************************************************************************)
(* DiagramTools.create_diagram_structure                                   *)
(***************************************************************************)
\* "diagram_obj": None is the empty sequence, a Diagram object a sequence of one
NewSession(title, direction, filename) ==
  [title |-> title, direction |-> direction, filename |-> filename,
   nodes |-> <<>>, clusters |-> <<>>, connections |-> <<>>,
   diagram_obj |-> <<>>]

\* create_diagram_structure with an id generator that returns the same id
\* every time: the new session takes the place of the one that has the id
CreateDiagramStructureSameId(title, direction, filename) ==
  LET diagram_id == 1
      name == IF Truthy(filename) THEN filename ELSE GenerateFilename(issued + 1)
  IN  /\ issued' = issued + 1
      /\ registry' = registry \cup {diagram_id}
      /\ heap' = [k \in DOMAIN heap \cup {diagram_id} |->
                    IF k = diagram_id THEN NewSession(title, direction, name)
                    ELSE heap[k]]
      /\ ret' = Success("create_diagram_structure", diagram_id,
                        [diagram_id |-> diagram_id, filename |-> name, title |-> title])
      /\ UNCHANGED <<files, pc, local, renderOk, okCalls>>

CreateDiagramStructure(title, direction, filename) ==
  LET diagram_id == issued + 1
      name == IF Truthy(filename) THEN filename ELSE GenerateFilename(diagram_id)
  IN  /\ issued' = diagram_id
      /\ registry' = registry \cup {diagram_id}
      /\ heap' = [k \in DOMAIN heap \cup {diagram_id} |->
                    IF k = diagram_id THEN NewSession(title, direction, name)
                    ELSE heap[k]]
      /\ ret' = Success("create_diagram_structure", diagram_id,
                        [diagram_id |-> diagram_id, filename |-> name, title |-> title])
      /\ UNCHANGED <<files, pc, local, renderOk, okCalls>>

(***************************************************************************)
(* DiagramTools.add_node                                                   *)
(***************************************************************************)
NodeInfo(node_id, label, service, provider, node_type, cluster_id) ==
  [id |-> node_id, label |-> label, service |-> service, provider |-> provider,
   node_type |-> node_type, cluster |-> cluster_id]

\* diagram_data["clusters"][cluster_id]["nodes"].append(node_id), when
\* cluster_id is given and names a cluster of the session
AddToCluster(clusters, cluster_id, node_id) ==
  IF Truthy(cluster_id) /\ cluster_id \in DictKeys(clusters)
  THEN [i \in 1..Len(clusters) |->
          IF clusters[i].key = cluster_id
          THEN [clusters[i] EXCEPT !.nodes = Append(@, node_id)]
          ELSE clusters[i]]
  ELSE clusters

\* diagram_data["nodes"][node_id] = {...}, then the cluster's member list
StoreNode(diagram_data, node_info, node_class) ==
  [diagram_data EXCEPT
     !.nodes = DictSet(@, [key |-> node_info.id, info |-> node_info, class |-> node_class]),
     !.clusters = AddToCluster(@, node_info.cluster, node_info.id)]

\* add_node that opens a session for an id the registry does not hold
\* (_diagram_registry.setdefault) in place of the not-found return
AddNodeAutoCreate(diagram_id, node_id, service, provider, label, cluster_id) ==
  LET found == GetNodeClass(service, provider)
      diagram_data == IF diagram_id \in registry THEN heap[diagram_id]
                      ELSE NewSession(<<>>, "TB", <<>>)
  IN  /\ UNCHANGED <<issued, files, pc, local, renderOk>>
      /\ IF ~found.ok
         THEN /\ ret' = Failure("add_node", diagram_id, found.error, found.available)
              /\ UNCHANGED <<registry, heap, okCalls>>
         ELSE /\ registry' = registry \cup {diagram_id}
              /\ heap' = [k \in DOMAIN heap \cup {diagram_id} |->
                            IF k = diagram_id
                            THEN StoreNode(diagram_data,
                                           NodeInfo(node_id, label, service, provider,
                                                    found.node_type, cluster_id),
                                           found.class)
                            ELSE heap[k]]
              /\ ret' = Success("add_node", diagram_id, [node_id |-> node_id, service |-> service,
                                             node_type |-> found.node_type])
              /\ okCalls' = [okCalls EXCEPT ![diagram_id].add_node = @ + 1]

AddNode(diagram_id, node_id, service, provider, label, cluster_id) ==
  LET found == GetNodeClass(service, provider)
  IN  /\ UNCHANGED <<registry, issued, files, pc, local, renderOk>>
      /\ IF diagram_id \notin registry
         THEN /\ ret' = Failure("add_node", diagram_id, "diagram_not_found", NoneVal)
              /\ UNCHANGED <<heap, okCalls>>
         ELSE IF ~found.ok
         THEN /\ ret' = Failure("add_node", diagram_id, found.error, found.available)
              /\ UNCHANGED <<heap, okCalls>>
         ELSE /\ heap' = [heap EXCEPT ![diagram_id] =
                            StoreNode(@, NodeInfo(node_id, label, service, provider,
                                                  found.node_type, cluster_id),
                                      found.class)]
              /\ ret' = Success("add_node", diagram_id, [node_id |-> node_id, service |-> service,
                                             node_type |-> found.node_type])
              /\ okCalls' = [okCalls EXCEPT ![diagram_id].add_node = @ + 1]

(***************************************************************************)
(* DiagramTools.create_cluster                                             *)
(***************************************************************************)
ClusterInfo(cluster_id, label) == [id |-> cluster_id, label |-> label, nodes |-> <<>>]

\* create_cluster that keeps a parent only when it is another cluster of
\* the session, and stores None otherwise
StoreClusterKnownParent(diagram_data, cluster_info, parent_cluster_id) ==
  [diagram_data EXCEPT
     !.clusters = DictSet(@, [key |-> cluster_info.id, info |-> cluster_info,
                              parent |-> IF parent_cluster_id \in DictKeys(diagram_data.clusters)
                                            /\ parent_cluster_id # cluster_info.id
                                         THEN parent_cluster_id
                                         ELSE NoneVal,
                              nodes |-> <<>>])]

\* diagram_data["clusters"][cluster_id] = {...}
StoreCluster(diagram_data, cluster_info, parent_cluster_id) ==
  [diagram_data EXCEPT
     !.clusters = DictSet(@, [key |-> cluster_info.id, info |-> cluster_info,
                              parent |-> parent_cluster_id, nodes |-> <<>>])]

CreateCluster(diagram_id, cluster_id, label, parent_cluster_id) ==
  /\ UNCHANGED <<registry, issued, files, pc, local, renderOk>>
  /\ IF diagram_id \notin registry
     THEN /\ ret' = Failure("create_cluster", diagram_id, "diagram_not_found", NoneVal)
          /\ UNCHANGED <<heap, okCalls>>
     ELSE /\ heap' = [heap EXCEPT ![diagram_id] =
                        StoreCluster(@, ClusterInfo(cluster_id, label), parent_cluster_id)]
          /\ ret' = Success("create_cluster", diagram_id, [cluster_id |-> cluster_id, label |-> label])
          /\ okCalls' = [okCalls EXCEPT
               ![diagram_id].create_cluster = @ + 1,
               ![diagram_id].nested_cluster =
                  IF parent_cluster_id = NoneVal THEN @ ELSE @ + 1]

(***************************************************************************)
(* DiagramTools.connect_nodes                                              *)
(***************************************************************************)
ConnectionInfo(source, target, label, bidirectional) ==
  [source |-> source, target |-> target, label |-> label, bidirectional |-> bidirectional]

\* node_id not in diagram_data["nodes"]
NodeMissing(diagram_data, node_id) == node_id \notin DictKeys(diagram_data.nodes)

\* connect_nodes without its target check
ConnectCheckSourceOnly(diagram_data, source_node_id, target_node_id) ==
  IF NodeMissing(diagram_data, source_node_id) THEN "source_not_found"
  ELSE "ok"

\* connect_nodes without its source check
ConnectCheckTargetOnly(diagram_data, source_node_id, target_node_id) ==
  IF NodeMissing(diagram_data, target_node_id) THEN "target_not_found"
  ELSE "ok"

\* the "Validate nodes exist" checks: the error of the first that fails
ConnectCheck(diagram_data, source_node_id, target_node_id) ==
  IF NodeMissing(diagram_data, source_node_id) THEN "source_not_found"
  ELSE IF NodeMissing(diagram_data, target_node_id) THEN "target_not_found"
  ELSE "ok"

\* diagram_data["connections"].append(connection_info)
StoreConnection(diagram_data, connection_info) ==
  [diagram_data EXCEPT !.connections = Append(@, connection_info)]

\* connect_nodes that appends the connection before it validates the nodes
ConnectNodesAppendFirst(diagram_id, source_node_id, target_node_id, label, bidirectional) ==
  /\ UNCHANGED <<registry, issued, files, pc, local, renderOk>>
  /\ IF diagram_id \notin registry
     THEN /\ ret' = Failure("connect_nodes", diagram_id, "diagram_not_found", NoneVal)
          /\ UNCHANGED <<heap, okCalls>>
     ELSE LET check == ConnectCheck(heap[diagram_id], source_node_id, target_node_id)
          IN  /\ heap' = [heap EXCEPT ![diagram_id] =
                            StoreConnection(@, ConnectionInfo(source_node_id,
                               target_node_id, label, bidirectional))]
              /\ IF check # "ok"
                 THEN /\ ret' = Failure("connect_nodes", diagram_id, check,
                                        IF check = "source_not_found"
                                        THEN source_node_id ELSE target_node_id)
                      /\ UNCHANGED okCalls
                 ELSE /\ ret' = Success("connect_nodes", diagram_id,
                           [source_node_id |-> source_node_id,
                            target_node_id |-> target_node_id,
                            connection_type |-> IF bidirectional THEN "bidirectional"
                                                ELSE "directional"])
                      /\ okCalls' = [okCalls EXCEPT ![diagram_id].connect_nodes = @ + 1]

ConnectNodes(diagram_id, source_node_id, target_node_id, label, bidirectional) ==
  /\ UNCHANGED <<registry, issued, files, pc, local, renderOk>>
  /\ IF diagram_id \notin registry
     THEN /\ ret' = Failure("connect_nodes", diagram_id, "diagram_not_found", NoneVal)
          /\ UNCHANGED <<heap, okCalls>>
     ELSE LET check == ConnectCheck(heap[diagram_id], source_node_id, target_node_id)
          IN  IF check # "ok"
              THEN /\ ret' = Failure("connect_nodes", diagram_id, check,
                                     IF check = "source_not_found"
                                     THEN source_node_id ELSE target_node_id)
                   /\ UNCHANGED <<heap, okCalls>>
              ELSE /\ heap' = [heap EXCEPT ![diagram_id] =
                                 StoreConnection(@, ConnectionInfo(source_node_id,
                                    target_node_id, label, bidirectional))]
                   /\ ret' = Success("connect_nodes", diagram_id,
                        [source_node_id |-> source_node_id,
                         target_node_id |-> target_node_id,
                         connection_type |-> IF bidirectional THEN "bidirectional"
                                             ELSE "directional"])
                   /\ okCalls' = [okCalls EXCEPT ![diagram_id].connect_nodes = @ + 1]

(***************************************************************************)
(* DiagramTools.render_diagram, in the three stretches another thread can  *)
(* run between: up to the renderer, the renderer (the with Diagram block), *)
(* and from the file check to the return.                                  *)
(***************************************************************************)
\* render_diagram under a lock of the whole store, held until it returns:
\* no second render begins while one is in progress
RenderBeginLocked(t, diagram_id) ==
  /\ \A u \in Threads : pc[u] = "idle"
  /\ UNCHANGED <<registry, heap, issued, files, renderOk, okCalls>>
  /\ IF diagram_id \notin registry
     THEN /\ ret' = Failure("render_diagram", diagram_id, "diagram_not_found", NoneVal)
          /\ UNCHANGED <<pc, local>>
     ELSE /\ pc' = [pc EXCEPT ![t] = "rendering"]
          /\ local' = [local EXCEPT
               ![t].diagram_id = diagram_id,
               ![t].output_path = GetTempPath(heap[diagram_id].filename)]
          /\ UNCHANGED ret

\* lines 456-465: the session check, diagram_data and output_path
RenderBegin(t, diagram_id) ==
  /\ pc[t] = "idle"
  /\ UNCHANGED <<registry, heap, issued, files, renderOk, okCalls>>
  /\ IF diagram_id \notin registry
     THEN /\ ret' = Failure("render_diagram", diagram_id, "diagram_not_found", NoneVal)
          /\ UNCHANGED <<pc, local>>
     ELSE /\ pc' = [pc EXCEPT ![t] = "rendering"]
          /\ local' = [local EXCEPT
               ![t].diagram_id = diagram_id,
               ![t].output_path = GetTempPath(heap[diagram_id].filename)]
          /\ UNCHANGED ret

\* a renderer that makes a Cluster object for every cluster, nested or not
ClusterObjectsNested(diagram_data) ==
  [i \in 1..Len(diagram_data.clusters) |->
     [key |-> diagram_data.clusters[i].key,
      label |-> diagram_data.clusters[i].info.label]]

\* lines 480-484: a Cluster object for each cluster whose parent is None
ClusterObjects(diagram_data) ==
  LET TopLevel(cluster_data) == cluster_data.parent = NoneVal
      top == SelectSeq(diagram_data.clusters, TopLevel)
  IN  [i \in 1..Len(top) |-> [key |-> top[i].key, label |-> top[i].info.label]]

\* lines 486-499: a node object for each node, made inside the Cluster object
\* its info names when there is one, and in the diagram itself otherwise
NodeObjects(diagram_data, cluster_objects) ==
  [i \in 1..Len(diagram_data.nodes) |->
     LET node_info == diagram_data.nodes[i].info
     IN  [key |-> node_info.id,
          label |-> node_info.label,
          class |-> diagram_data.nodes[i].class,
          context |-> IF Truthy(node_info.cluster)
                         /\ node_info.cluster \in DictKeys(cluster_objects)
                      THEN node_info.cluster
                      ELSE NoneVal]]

\* an Edge made for every connection in both directions: a bidirectional
\* connection drawn as two directed edges
EdgeCallsTwoDirected(connection) ==
  IF connection.bidirectional
  THEN << [source |-> connection.source, target |-> connection.target,
           label |-> connection.label, forward |-> TRUE],
          [source |-> connection.target, target |-> connection.source,
           label |-> connection.label, forward |-> TRUE] >>
  ELSE << [source |-> connection.source, target |-> connection.target,
           label |-> connection.label, forward |-> TRUE] >>

\* lines 505-512: source_obj - Edge(label) - target_obj is one edge without
\* a direction, source_obj >> Edge(label) >> target_obj one forward edge
EdgeCalls(connection) ==
  << [source |-> connection.source, target |-> connection.target,
      label |-> connection.label, forward |-> ~connection.bidirectional] >>

\* lines 501-512: the edge calls of the connections whose two ends have
\* objects, in the order of the connections
EdgeObjects(diagram_data, node_objects) ==
  LET Drawn(connection) == /\ connection.source \in DictKeys(node_objects)
                           /\ connection.target \in DictKeys(node_objects)
      drawn == SelectSeq(diagram_data.connections, Drawn)
      Calls[i \in 0..Len(drawn)] ==
        IF i = 0 THEN <<>> ELSE Calls[i - 1] \o EdgeCalls(drawn[i])
  IN  Calls[Len(drawn)]

\* lines 475-512: the Diagram object with what was made inside it, the
\* context still open
DiagramObject(diagram_data) ==
  LET cluster_objects == ClusterObjects(diagram_data)
      node_objects == NodeObjects(diagram_data, cluster_objects)
  IN  [clusters |-> cluster_objects,
       nodes |-> node_objects,
       edges |-> EdgeObjects(diagram_data, node_objects),
       closed |-> FALSE]

\* a render_diagram that enters the Diagram without the with statement and
\* closes it at the end of the block only: an exception leaves it open
ExitContextOnReturn(diag, raised) == [diag EXCEPT !.closed = ~raised]

\* lines 469-474: the with statement closes the Diagram on every exit of
\* its block, by its end and by an exception
ExitContext(diag, raised) == [diag EXCEPT !.closed = TRUE]

\* lines 469-512: diagram_data["diagram_obj"] = diag with what was made
\* before the block was left: everything, or nothing when the first call
\* that makes an object raises ("build_raise")
StoreDiagramObject(objects, diagram_id, outcome) ==
  LET diag == DiagramObject(objects[diagram_id])
      made == IF outcome = "build_raise"
              THEN [diag EXCEPT !.clusters = <<>>, !.nodes = <<>>, !.edges = <<>>]
              ELSE diag
  IN  [objects EXCEPT ![diagram_id].diagram_obj =
         <<ExitContext(made, outcome \in {"raise", "build_raise"})>>]

\* lines 467-512 and 547-549: the objects are made and the renderer runs as
\* the context closes.  The renderer raises ("raise"), or it has written its
\* target ("write") or nothing ("skip"); or a Cluster, node or Edge call
\* raises ("build_raise", when there is such a call to make), the context
\* closes over what was made and the exception is caught.  A call that
\* returns leaves no locals behind.
RenderDraw(t, outcome, size) ==
  /\ pc[t] = "rendering"
  /\ UNCHANGED <<registry, issued, renderOk, okCalls>>
  /\ IF outcome \in {"raise", "build_raise"}
     THEN /\ outcome = "build_raise" =>
                Len(heap[local[t].diagram_id].nodes)
                  + Len(ClusterObjects(heap[local[t].diagram_id])) > 0
          /\ ret' = Failure("render_diagram", local[t].diagram_id,
                            IF outcome = "raise" THEN "renderer_raised" ELSE "call_raised",
                            NoneVal)
          /\ pc' = [pc EXCEPT ![t] = "idle"]
          /\ heap' = Collect(StoreDiagramObject(heap, local[t].diagram_id, outcome),
                             registry, pc', local)
          /\ local' = [local EXCEPT ![t].diagram_id = 0, ![t].output_path = <<>>]
          /\ files' = IF outcome = "build_raise"
                      THEN WriteFile(files, RendererTarget(local[t].output_path), size)
                      ELSE files
     ELSE /\ files' = IF outcome = "write"
                      THEN WriteFile(files, RendererTarget(local[t].output_path), size)
                      ELSE files
          /\ pc' = [pc EXCEPT ![t] = "rendered"]
          /\ heap' = StoreDiagramObject(heap, local[t].diagram_id, outcome)
          /\ UNCHANGED <<local, ret>>

\* lines 520-532: the DiagramStructure of the session as it is now
Structure(diagram_data) ==
  [title |-> diagram_data.title,
   direction |-> diagram_data.direction,
   nodes |-> [i \in 1..Len(diagram_data.nodes) |-> diagram_data.nodes[i].info],
   connections |-> diagram_data.connections,
   clusters |-> [i \in 1..Len(diagram_data.clusters) |-> diagram_data.clusters[i].info]]

\* _diagram_registry.pop(diagram_id, None) in place of del: never raises
DelRaisesNever(keys, diagram_id) == FALSE

\* del _diagram_registry[diagram_id] raises KeyError when the key is gone
DelRaises(keys, diagram_id) == diagram_id \notin keys

\* render_diagram without its registry clean-up
DelKeyKeeps(keys, diagram_id) == keys

\* _diagram_registry.clear() in place of del: a render reclaims every session
DelKeyClears(keys, diagram_id) == {}

\* del _diagram_registry[diagram_id]
DelKey(keys, diagram_id) == keys \ {diagram_id}

\* file_size or 0
SizeOrZero(file_size) == IF file_size = <<>> THEN 0 ELSE file_size[1]

\* render_diagram whose del stands outside the try block
RenderFinishUncaught(t) ==
  LET diagram_id == local[t].diagram_id
      output_path == local[t].output_path
  IN  /\ pc[t] = "rendered"
      /\ pc' = [pc EXCEPT ![t] = "idle"]
      /\ local' = [local EXCEPT ![t].diagram_id = 0, ![t].output_path = <<>>]
      /\ UNCHANGED <<issued, files, okCalls>>
      /\ IF ~PathExists(files, output_path)
         THEN /\ ret' = Failure("render_diagram", diagram_id, "file_not_created", NoneVal)
              /\ heap' = Collect(heap, registry, pc', local)
              /\ UNCHANGED <<registry, renderOk>>
         ELSE IF DelRaises(registry, diagram_id)
         THEN /\ ret' = Raised("render_diagram", diagram_id, "key_error")
              /\ heap' = Collect(heap, registry, pc', local)
              /\ UNCHANGED <<registry, renderOk>>
         ELSE /\ registry' = DelKey(registry, diagram_id)
              /\ heap' = Collect(heap, registry', pc', local)
              /\ ret' = Success("render_diagram", diagram_id,
                   [diagram_path |-> output_path,
                    file_size_bytes |-> SizeOrZero(GetFileSize(files, output_path)),
                    structure |-> Structure(heap[diagram_id])])
              /\ renderOk' = [renderOk EXCEPT ![diagram_id] = @ + 1]

\* lines 514-549: the file check, the size, the structure, the del, the return
RenderFinish(t) ==
  LET diagram_id == local[t].diagram_id
      output_path == local[t].output_path
  IN  /\ pc[t] = "rendered"
      /\ pc' = [pc EXCEPT ![t] = "idle"]
      /\ local' = [local EXCEPT ![t].diagram_id = 0, ![t].output_path = <<>>]
      /\ UNCHANGED <<issued, files, okCalls>>
      /\ IF ~PathExists(files, output_path)
         THEN /\ ret' = Failure("render_diagram", diagram_id, "file_not_created", NoneVal)
              /\ heap' = Collect(heap, registry, pc', local)
              /\ UNCHANGED <<registry, renderOk>>
         ELSE IF DelRaises(registry, diagram_id)
         THEN /\ ret' = Failure("render_diagram", diagram_id, "key_error", NoneVal)
              /\ heap' = Collect(heap, registry, pc', local)
              /\ UNCHANGED <<registry, renderOk>>
         ELSE /\ registry' = DelKey(registry, diagram_id)
              /\ heap' = Collect(heap, registry', pc', local)
              /\ ret' = Success("render_diagram", diagram_id,
                   [diagram_path |-> output_path,
                    file_size_bytes |-> SizeOrZero(GetFileSize(files, output_path)),
                    structure |-> Structure(heap[diagram_id])])
              /\ renderOk' = [renderOk EXCEPT ![diagram_id] = @ + 1]

(***************************************************************************)
(* Callers.  A call is an operation on inputs drawn from the given sets;   *)
(* uuid4() is drawn at most MaxDiagrams times and at most MaxOps builder   *)
(* calls succeed.                                                          *)
(***************************************************************************)
CallCreate(titles, filenames) ==
  \E title \in titles, direction \in Directions, filename \in filenames :
    /\ issued < MaxDiagrams
    /\ CreateDiagramStructure(title, direction, filename)

CallAddNode(node_ids, services, labels, cluster_refs) ==
  \E diagram_id \in DiagramIds, node_id \in node_ids, sp \in services,
     label \in labels, cluster_id \in cluster_refs :
    /\ AddNode(diagram_id, node_id, sp[1], sp[2], label, cluster_id)
    /\ TotalOps(okCalls') <= MaxOps

CallCreateCluster(cluster_ids, labels, parents) ==
  \E diagram_id \in DiagramIds, cluster_id \in cluster_ids, label \in labels,
     parent \in parents :
    /\ CreateCluster(diagram_id, cluster_id, label, parent)
    /\ TotalOps(okCalls') <= MaxOps

CallConnectNodes(node_ids, labels, flags) ==
  \E diagram_id \in DiagramIds, source \in node_ids, target \in node_ids,
     label \in labels, bidirectional \in flags :
    /\ ConnectNodes(diagram_id, source, target, label, bidirectional)
    /\ TotalOps(okCalls') <= MaxOps

CallRenderBegin(threads) ==
  \E t \in threads, diagram_id \in DiagramIds : RenderBegin(t, diagram_id)

CallRenderDraw(threads) ==
  \E t \in threads, outcome \in RenderOutcomes, size \in FileSizes :
    RenderDraw(t, outcome, size)

CallRenderFinish(threads) == \E t \in threads : RenderFinish(t)

(***************************************************************************)
(* Spec: callers on any thread, sessions side by side, renders that        *)
(* overlap.                                                                *)
(***************************************************************************)
Next ==
  \/ CallCreate(Titles, FilenameInputs)
  \/ CallAddNode(NodeIdInputs, ServiceInputs, LabelInputs, ClusterRefInputs)
  \/ CallCreateCluster(ClusterIdInputs, LabelInputs, ClusterRefInputs)
  \/ CallConnectNodes(NodeIdInputs, ConnectionLabelInputs, BidirectionalInputs)
  \/ CallRenderBegin(Threads)
  \/ CallRenderDraw(Threads)
  \/ CallRenderFinish(Threads)

Spec == Init /\ [][Next]_vars

(***************************************************************************)
(* SpecBuild: one caller that builds and renders one diagram at a time.    *)
(***************************************************************************)
NextBuild ==
  \/ registry = {} /\ CallCreate(Titles, FilenameInputs)
  \/ CallAddNode(BuildNodeIds, BuildServices, LabelInputs, BuildClusterRefs)
  \/ CallCreateCluster(ClusterIdInputs, LabelInputs, BuildClusterRefs)
  \/ CallConnectNodes(BuildNodeIds, ConnectionLabelInputs, BOOLEAN)
  \/ CallRenderBegin({"t1"})
  \/ CallRenderDraw({"t1"})
  \/ CallRenderFinish({"t1"})

SpecBuild == Init /\ [][NextBuild]_vars

(***************************************************************************)
(* SpecInputs: one caller that creates a diagram and adds nodes and        *)
(* clusters with titles, ids and labels of every kind.                     *)
(***************************************************************************)
NextInputs ==
  \/ registry = {} /\ CallCreate(InputTitles, FilenameInputs)
  \/ CallAddNode(InputIds, InputServices, InputLabels, ClusterRefInputs)
  \/ CallCreateCluster(InputIds, InputLabels, ClusterRefInputs)

SpecInputs == Init /\ [][NextInputs]_vars

(***************************************************************************)
(* SpecCatalog: one caller that creates a diagram and adds a cluster and   *)
(* nodes of services of every provider, found and not found.               *)
(***************************************************************************)
NextCatalog ==
  \/ registry = {} /\ CallCreate(Titles, FilenameInputs)
  \/ CallAddNode(BuildNodeIds, CatalogServices, LabelInputs, BuildClusterRefs)
  \/ CallCreateCluster(ClusterIdInputs, LabelInputs, ClusterRefInputs)

SpecCatalog == Init /\ [][NextCatalog]_vars

(***************************************************************************)
(* SpecClusters: one caller that creates a diagram, two clusters and nodes *)
(* inside and outside of them, and renders it.                             *)
(***************************************************************************)
NextClusters ==
  \/ registry = {} /\ CallCreate(Titles, FilenameInputs)
  \/ \E diagram_id \in DiagramIds, node_id \in BuildNodeIds, sp \in ServiceInputs,
        label \in LabelInputs, cluster_id \in ClusterPairRefs :
       /\ AddNode(diagram_id, node_id, sp[1], sp[2], label, cluster_id)
       /\ TotalOps(okCalls') <= MaxClusterOps
  \/ \E diagram_id \in DiagramIds, cluster_id \in ClusterPair, label \in LabelInputs,
        parent \in ClusterRefInputs :
       /\ CreateCluster(diagram_id, cluster_id, label, parent)
       /\ TotalOps(okCalls') <= MaxClusterOps
  \/ CallRenderBegin({"t1"})
  \/ CallRenderDraw({"t1"})
  \/ CallRenderFinish({"t1"})

SpecClusters == Init /\ [][NextClusters]_vars

(***************************************************************************)
(* SpecLimits: one caller that fills one diagram past every ceiling, with  *)
(* 51 nodes n01..n51, then 101 connections, then 11 clusters c01..c11.     *)
(***************************************************************************)
Numbered(prefix, k) == <<prefix, Digits[(k \div 10) + 1], Digits[(k % 10) + 1]>>

FillCreate ==
  /\ issued = 0
  /\ CreateDiagramStructure(<<"W", "e", "b", " ", "A", "p", "p">>, "TB", NoneVal)

FillNodes ==
  /\ 1 \in registry
  /\ Len(heap[1].nodes) <= MAX_NODES_PER_DIAGRAM
  /\ AddNode(1, Numbered("n", Len(heap[1].nodes) + 1), <<"e", "c", "2">>, "aws", <<"W", "e", "b">>, NoneVal)

FillConnections ==
  /\ 1 \in registry
  /\ Len(heap[1].nodes) > MAX_NODES_PER_DIAGRAM
  /\ Len(heap[1].connections) <= MAX_CONNECTIONS_PER_DIAGRAM
  /\ ConnectNodes(1, Numbered("n", 1), Numbered("n", 2), NoneVal, FALSE)

FillClusters ==
  /\ 1 \in registry
  /\ Len(heap[1].connections) > MAX_CONNECTIONS_PER_DIAGRAM
  /\ Len(heap[1].clusters) <= MAX_CLUSTERS_PER_DIAGRAM
  /\ CreateCluster(1, Numbered("c", Len(heap[1].clusters) + 1), <<"T", "i", "e", "r">>, NoneVal)

NextLimits == FillCreate \/ FillNodes \/ FillConnections \/ FillClusters

SpecLimits == Init /\ [][NextLimits]_vars

(***************************************************************************)
(* add_node, create_cluster and connect_nodes statement by statement, for  *)
(* two threads that call them at the same time.  A step is one read or     *)
(* one write of the session's dicts and lists, which the interpreter does  *)
(* as a whole; another thread can run between any two.  The frame of a     *)
(* thread keeps its call, the session as it was when the first of the two  *)
(* calls began, and the result the call returned.                          *)
(***************************************************************************)
NoCall == [op |-> "none", args |-> <<>>]

Frame(diagram_id, call, base, result) ==
  [diagram_id |-> diagram_id, output_path |-> <<>>, call |-> call, base |-> base,
   result |-> result]

InitConcurrent ==
  /\ registry = {}
  /\ heap = <<>>
  /\ issued = 0
  /\ files = <<>>
  /\ pc = [t \in Threads |-> "idle"]
  /\ local = [t \in Threads |-> Frame(0, NoCall, <<>>, "pending")]
  /\ ret = Failure("none", 0, "None", NoneVal)
  /\ renderOk = [k \in DiagramIds |-> 0]
  /\ okCalls = [k \in DiagramIds |-> NoCalls]

NoneBegun == \A t \in Threads : local[t].call.op = "none"

\* the session before the first of the concurrent calls
BaseOf(t, diagram_id) ==
  IF NoneBegun THEN heap[diagram_id]
  ELSE local[CHOOSE u \in Threads : local[u].call.op # "none"].base

\* a thread's call begins: the registry check and the lookup of diagram_data
Begin(t, diagram_id, call, next) ==
  /\ pc[t] = "idle"
  /\ local[t].call.op = "none"
  /\ UNCHANGED <<registry, heap, issued, files, renderOk, okCalls>>
  /\ IF diagram_id \notin registry
     THEN /\ ret' = Failure(call.op, diagram_id, "diagram_not_found", NoneVal)
          /\ local' = [local EXCEPT ![t] = Frame(diagram_id, call, <<>>, "failure")]
          /\ UNCHANGED pc
     ELSE /\ local' = [local EXCEPT ![t] =
                         Frame(diagram_id, call, BaseOf(t, diagram_id), "pending")]
          /\ pc' = [pc EXCEPT ![t] = next]
          /\ UNCHANGED ret

\* a thread's call returns
Return(t, result) ==
  /\ pc' = [pc EXCEPT ![t] = "idle"]
  /\ local' = [local EXCEPT ![t].result = IF result.success THEN "success" ELSE "failure"]
  /\ ret' = result
  /\ okCalls' = IF result.success
                THEN [okCalls EXCEPT ![result.diagram_id][result.op] = @ + 1]
                ELSE okCalls

\* a step that goes on to the next statement
Goto(t, next) ==
  /\ pc' = [pc EXCEPT ![t] = next]
  /\ UNCHANGED <<local, ret, okCalls>>

\* add_node, lines 299-323: the registry check, get_node_class, node_info
\* and diagram_data
AddNodeBegin(t, diagram_id, node_id, service, provider, label, cluster_id) ==
  LET call == [op |-> "add_node",
               args |-> <<node_id, service, provider, label, cluster_id>>]
      found == GetNodeClass(service, provider)
  IN  IF diagram_id \in registry /\ ~found.ok
      THEN /\ pc[t] = "idle"
           /\ local[t].call.op = "none"
           /\ UNCHANGED <<registry, heap, issued, files, renderOk, okCalls, pc>>
           /\ ret' = Failure("add_node", diagram_id, found.error, found.available)
           /\ local' = [local EXCEPT ![t] =
                          Frame(diagram_id, call, BaseOf(t, diagram_id), "failure")]
      ELSE Begin(t, diagram_id, call, "add_store")

\* the node the frame's add_node call stores
FrameNode(frame) ==
  LET a == frame.call.args
      found == GetNodeClass(a[2], a[3])
  IN  [key |-> a[1],
       info |-> NodeInfo(a[1], a[4], a[2], a[3], found.node_type, a[5]),
       class |-> found.class]

\* add_node store that writes the nodes it read when the call began, with
\* the new node (a copy written back in place of an update in place)
AddNodeStoreCopy(t) ==
  /\ pc[t] = "add_store"
  /\ heap' = [heap EXCEPT ![local[t].diagram_id].nodes =
                DictSet(local[t].base.nodes, FrameNode(local[t]))]
  /\ Goto(t, "add_cluster")
  /\ UNCHANGED <<registry, issued, files, renderOk>>

\* lines 324-328: diagram_data["nodes"][node_id] = {...}
AddNodeStore(t) ==
  /\ pc[t] = "add_store"
  /\ heap' = [heap EXCEPT ![local[t].diagram_id].nodes = DictSet(@, FrameNode(local[t]))]
  /\ Goto(t, "add_cluster")
  /\ UNCHANGED <<registry, issued, files, renderOk>>

AddNodeResult(frame) ==
  Success("add_node", frame.diagram_id,
          [node_id |-> frame.call.args[1], service |-> frame.call.args[2],
           node_type |-> FrameNode(frame).info.node_type])

\* lines 331-334: the test of cluster_id; without a cluster, the return
AddNodeClusterCheck(t) ==
  LET cluster_id == local[t].call.args[5]
  IN  /\ pc[t] = "add_cluster"
      /\ UNCHANGED <<registry, heap, issued, files, renderOk>>
      /\ IF Truthy(cluster_id)
            /\ cluster_id \in DictKeys(heap[local[t].diagram_id].clusters)
         THEN Goto(t, "add_append")
         ELSE Return(t, AddNodeResult(local[t]))

\* lines 335-352: the append to the cluster's member list, and the return
AddNodeAppend(t) ==
  /\ pc[t] = "add_append"
  /\ heap' = [heap EXCEPT ![local[t].diagram_id].clusters =
                AddToCluster(@, local[t].call.args[5], local[t].call.args[1])]
  /\ Return(t, AddNodeResult(local[t]))
  /\ UNCHANGED <<registry, issued, files, renderOk>>

\* create_cluster, lines 361-371: the registry check, cluster_info and
\* diagram_data
CreateClusterBegin(t, diagram_id, cluster_id, label, parent_cluster_id) ==
  Begin(t, diagram_id,
        [op |-> "create_cluster", args |-> <<cluster_id, label, parent_cluster_id>>],
        "cluster_store")

\* lines 372-390: diagram_data["clusters"][cluster_id] = {...}, and the return
CreateClusterStore(t) ==
  LET a == local[t].call.args
  IN  /\ pc[t] = "cluster_store"
      /\ heap' = [heap EXCEPT ![local[t].diagram_id] =
                    StoreCluster(@, ClusterInfo(a[1], a[2]), a[3])]
      /\ Return(t, Success("create_cluster", local[t].diagram_id,
                           [cluster_id |-> a[1], label |-> a[2]]))
      /\ UNCHANGED <<registry, issued, files, renderOk>>

\* connect_nodes, lines 400-406: the registry check and diagram_data
ConnectNodesBegin(t, diagram_id, source_node_id, target_node_id, label, bidirectional) ==
  Begin(t, diagram_id,
        [op |-> "connect_nodes",
         args |-> <<source_node_id, target_node_id, label, bidirectional>>],
        "connect_source")

\* lines 408-412: the source check
ConnectNodesSource(t) ==
  /\ pc[t] = "connect_source"
  /\ UNCHANGED <<registry, heap, issued, files, renderOk>>
  /\ IF NodeMissing(heap[local[t].diagram_id], local[t].call.args[1])
     THEN Return(t, Failure("connect_nodes", local[t].diagram_id, "source_not_found",
                            local[t].call.args[1]))
     ELSE Goto(t, "connect_target")

\* lines 414-418: the target check
ConnectNodesTarget(t) ==
  /\ pc[t] = "connect_target"
  /\ UNCHANGED <<registry, heap, issued, files, renderOk>>
  /\ IF NodeMissing(heap[local[t].diagram_id], local[t].call.args[2])
     THEN Return(t, Failure("connect_nodes", local[t].diagram_id, "target_not_found",
                            local[t].call.args[2]))
     ELSE Goto(t, "connect_append")

\* lines 420-446: connection_info, the append, and the return
ConnectNodesAppend(t) ==
  LET a == local[t].call.args
  IN  /\ pc[t] = "connect_append"
      /\ heap' = [heap EXCEPT ![local[t].diagram_id] =
                    StoreConnection(@, ConnectionInfo(a[1], a[2], a[3], a[4]))]
      /\ Return(t, Success("connect_nodes", local[t].diagram_id,
                           [source_node_id |-> a[1], target_node_id |-> a[2],
                            connection_type |-> IF a[4] THEN "bidirectional"
                                                ELSE "directional"]))
      /\ UNCHANGED <<registry, issued, files, renderOk>>

(***************************************************************************)
(* SpecConcurrent: a caller creates a diagram and adds a node or a cluster *)
(* to it; then each of two threads makes one call on the diagram, and the  *)
(* two calls run at the same time.                                         *)
(***************************************************************************)
NextConcurrent ==
  \/ NoneBegun /\ registry = {} /\ CallCreate(Titles, FilenameInputs)
  \/ NoneBegun /\ CallAddNode(NodeIdInputs, ServiceInputs, LabelInputs, BuildClusterRefs)
  \/ NoneBegun /\ CallCreateCluster(ClusterIdInputs, LabelInputs, ClusterRefInputs)
  \/ \E t \in Threads, diagram_id \in registry, node_id \in BuildNodeIds,
        sp \in BuildServices, label \in LabelInputs, cluster_id \in BuildClusterRefs :
       AddNodeBegin(t, diagram_id, node_id, sp[1], sp[2], label, cluster_id)
  \/ \E t \in Threads : AddNodeStore(t)
  \/ \E t \in Threads : AddNodeClusterCheck(t)
  \/ \E t \in Threads : AddNodeAppend(t)
  \/ \E t \in Threads, diagram_id \in registry, cluster_id \in ClusterIdInputs,
        label \in LabelInputs, parent \in ClusterRefInputs :
       CreateClusterBegin(t, diagram_id, cluster_id, label, parent)
  \/ \E t \in Threads : CreateClusterStore(t)
  \/ \E t \in Threads, diagram_id \in registry, source \in BuildNodeIds,
        target \in BuildNodeIds, label \in ConnectionLabelInputs,
        bidirectional \in BidirectionalInputs :
       ConnectNodesBegin(t, diagram_id, source, target, label, bidirectional)
  \/ \E t \in Threads : ConnectNodesSource(t)
  \/ \E t \in Threads : ConnectNodesTarget(t)
  \/ \E t \in Threads : ConnectNodesAppend(t)

SpecConcurrent == InitConcurrent /\ [][NextConcurrent]_vars

(***************************************************************************)
(* SpecOverlap: a caller creates a diagram and adds a node or a cluster to *)
(* it; then thread t1 makes one add_node, create_cluster or connect_nodes  *)
(* call on the diagram, statement by statement, while thread t2 renders    *)
(* the diagram.                                                            *)
(***************************************************************************)
NextOverlap ==
  \/ NoneBegun /\ registry = {} /\ issued = 0 /\ CallCreate(Titles, FilenameInputs)
  \/ NoneBegun /\ pc["t2"] = "idle"
       /\ CallAddNode(NodeIdInputs, ServiceInputs, LabelInputs, BuildClusterRefs)
  \/ NoneBegun /\ pc["t2"] = "idle"
       /\ CallCreateCluster(ClusterIdInputs, LabelInputs, ClusterRefInputs)
  \/ \E diagram_id \in registry, node_id \in BuildNodeIds, sp \in ServiceInputs,
        label \in LabelInputs, cluster_id \in BuildClusterRefs :
       AddNodeBegin("t1", diagram_id, node_id, sp[1], sp[2], label, cluster_id)
  \/ AddNodeStore("t1")
  \/ AddNodeClusterCheck("t1")
  \/ AddNodeAppend("t1")
  \/ \E diagram_id \in registry, cluster_id \in ClusterIdInputs,
        label \in LabelInputs, parent \in ClusterRefInputs :
       CreateClusterBegin("t1", diagram_id, cluster_id, label, parent)
  \/ CreateClusterStore("t1")
  \/ \E diagram_id \in registry, source \in NodeIdInputs, target \in NodeIdInputs,
        label \in ConnectionLabelInputs, bidirectional \in BOOLEAN :
       ConnectNodesBegin("t1", diagram_id, source, target, label, bidirectional)
  \/ ConnectNodesSource("t1")
  \/ ConnectNodesTarget("t1")
  \/ ConnectNodesAppend("t1")
  \/ \E diagram_id \in registry : RenderBegin("t2", diagram_id)
  \/ \E outcome \in RenderOutcomes : RenderDraw("t2", outcome, 1024)
  \/ RenderFinish("t2")

SpecOverlap == InitConcurrent /\ [][NextOverlap]_vars

(***************************************************************************)
(* SpecSessions: callers on two threads and MaxSessions sessions side by   *)
(* side, each built and rendered on its own.                               *)
(***************************************************************************)
\* uuid4() is drawn at most MaxSessions times by the callers of SpecSessions
MaxSessions == 2
\* successful add_node / create_cluster / connect_nodes calls of SpecSessions
MaxSessionOps == 1

SessionIds == 1..MaxSessions

InitSessions ==
  /\ registry = {}
  /\ heap = <<>>
  /\ issued = 0
  /\ files = <<>>
  /\ pc = [t \in Threads |-> "idle"]
  /\ local = [t \in Threads |-> [diagram_id |-> 0, output_path |-> <<>>]]
  /\ ret = Failure("none", 0, "None", NoneVal)
  /\ renderOk = [k \in SessionIds |-> 0]
  /\ okCalls = [k \in SessionIds |-> NoCalls]

\* successful builder calls, all sessions of SpecSessions
SessionOps(calls) ==
  LET RECURSIVE Sum(_)
      Sum(k) == IF k = 0 THEN 0
                ELSE calls[k].add_node + calls[k].create_cluster
                     + calls[k].connect_nodes + Sum(k - 1)
  IN  Sum(MaxSessions)

NextSessions ==
  \/ \E title \in Titles, direction \in Directions, filename \in FilenameInputs :
       /\ issued < MaxSessions
       /\ CreateDiagramStructure(title, direction, filename)
  \/ \E diagram_id \in SessionIds, node_id \in NodeIdInputs, sp \in ServiceInputs,
        label \in LabelInputs, cluster_id \in ClusterRefInputs :
       /\ AddNode(diagram_id, node_id, sp[1], sp[2], label, cluster_id)
       /\ SessionOps(okCalls') <= MaxSessionOps
  \/ \E diagram_id \in SessionIds, cluster_id \in ClusterIdInputs, label \in LabelInputs,
        parent \in ClusterRefInputs :
       /\ CreateCluster(diagram_id, cluster_id, label, parent)
       /\ SessionOps(okCalls') <= MaxSessionOps
  \/ \E diagram_id \in SessionIds, source \in NodeIdInputs, target \in NodeIdInputs,
        label \in ConnectionLabelInputs, bidirectional \in BidirectionalInputs :
       /\ ConnectNodes(diagram_id, source, target, label, bidirectional)
       /\ SessionOps(okCalls') <= MaxSessionOps
  \/ \E t \in Threads, diagram_id \in SessionIds : RenderBegin(t, diagram_id)
  \/ \E t \in Threads, outcome \in RenderOutcomes : RenderDraw(t, outcome, 1024)
  \/ CallRenderFinish(Threads)

SpecSessions == InitSessions /\ [][NextSessions]_vars

(***************************************************************************)
(* SpecFunctions: a caller that makes one call of a validator, of the      *)
(* normalizer, of the catalog or of the HTTP endpoint.  ret holds the call *)
(* that returned: its input is the result of a call that returned and the  *)
(* detail of a call that raised.                                           *)
(***************************************************************************)
\* length of the identifiers written over the alphabet of IdStrings
MaxIdLen == 3

\* every string over letters of both cases, a digit, the two marks an
\* identifier may hold but not begin or end with, and characters outside of
\* the pattern; reserved words in three casings and with a suffix; and
\* identifiers at and past the length cap
IdStrings ==
  UNION {[1..k -> {"a", "Z", "1", "-", "_", " ", "\n"}] : k \in 0..MaxIdLen}
    \cup { <<"t", "m", "p">>, <<"T", "M", "P">>, <<"N", "o", "d", "e">>, <<"d", "i", "a", "g", "r", "a", "m">>, <<"d", "i", "a", "g", "r", "a", "m", "s">>, <<"t", "m", "p", "\n">>, <<"v", "a", "l", "i", "d", "-", "i", "d", "_", "1", "2", "3">>,
           <<"i", "n", "v", "a", "l", "i", "d", " ", "i", "d", "!">>, <<"i", "n", "v", "a", "l", "i", "d", "@", "i", "d">> }
    \cup { Repeat("a", MAX_ID_LENGTH), Repeat("a", MAX_ID_LENGTH + 1),
           Repeat("-", MAX_ID_LENGTH + 1) }

\* the first call of the caller returns or raises without touching the
\* registry
Returns(result) ==
  /\ ret.op = "none"
  /\ ret' = result
  /\ UNCHANGED <<registry, heap, issued, files, pc, local, renderOk, okCalls>>

\* the input of the call that returned last
Input(result) == IF result.success THEN result.result ELSE result.detail

\* DiagramValidator.validate_id(id_value)
CallValidateId ==
  \E id_value \in IdStrings :
    Returns(IF ValidateId(id_value) = "ok"
            THEN Success("validate_id", 0, id_value)
            ELSE Failure("validate_id", 0, ValidateId(id_value), id_value))

\* counts at, just under and just over each ceiling
CountInputs(ceiling) == {0, ceiling - 1, ceiling, ceiling + 1}

\* DiagramValidator.validate_diagram_limits(node_count, connection_count, cluster_count)
CallValidateDiagramLimits ==
  \E node_count \in CountInputs(MAX_NODES_PER_DIAGRAM),
     connection_count \in CountInputs(MAX_CONNECTIONS_PER_DIAGRAM),
     cluster_count \in CountInputs(MAX_CLUSTERS_PER_DIAGRAM) :
    LET counts == <<node_count, connection_count, cluster_count>>
        check  == ValidateDiagramLimits(node_count, connection_count, cluster_count)
    IN  Returns(IF check = "ok"
                THEN Success("validate_diagram_limits", 0, counts)
                ELSE Failure("validate_diagram_limits", 0, check, counts))

UpperChar(c) ==
  IF \E i \in 1..Len(LowerCase) : LowerCase[i] = c
  THEN UpperCase[CHOOSE i \in 1..Len(LowerCase) : LowerCase[i] = c]
  ELSE c

\* str.upper()
Upper(s) == [i \in 1..Len(s) |-> UpperChar(s[i])]

\* a key as callers spell it: as it is, in upper case, as capitalised words
\* that spaces part (str.title()), and with hyphens
Spellings(key) ==
  LET title == [i \in 1..Len(key) |->
                  IF i = 1 \/ key[i - 1] \in {"_", " ", "-"}
                  THEN UpperChar(key[i]) ELSE key[i]]
  IN  { key, Upper(key), Replace(title, "_", " "), Replace(key, "_", "-") }

\* every spelling of every key of the alias table, and names that are no
\* key of it: with a provider prefix, with blanks around, the empty name
ServiceNames ==
  UNION {Spellings(SERVICE_ALIASES[i].key) : i \in 1..Len(SERVICE_ALIASES)}
    \cup { <<"E", "C", "2">>, <<"A", "W", "S", " ", "L", "a", "m", "b", "d", "a">>, <<"C", "l", "o", "u", "d", " ", "F", "u", "n", "c", "t", "i", "o", "n", "s">>, <<"A", "z", "u", "r", "e", "-", "V", "M">>, <<" ", " ", "s", "3", " ">>,
           <<"a", "m", "a", "z", "o", "n", " ", "-", " ", "s", "3">>, <<"l", "o", "a", "d", " ", "b", "a", "l", "a", "n", "c", "e", "r", " ", "s", "e", "r", "v", "i", "c", "e", "s">>, <<>> }

\* ServiceNameNormalizer.normalize_service_name(service)
CallNormalizeServiceName ==
  \E service \in ServiceNames :
    Returns(Success("normalize_service_name", 0,
                    [service |-> service, normalized |-> NormalizeServiceName(service)]))

\* every spelling of every key of the three tables, and names that are a
\* key of no table: a blank inside or behind a key, an alias, the empty name
CatalogNames ==
  UNION {UNION {Spellings(ServiceKeys(provider)[i]) : i \in 1..Len(ServiceKeys(provider))} :
           provider \in Providers}
    \cup { <<"E", "C", " ", "2">>, <<"e", "c", "2", " ">>, <<"C", "l", "o", "u", "d", " ", " ", "S", "Q", "L">>, <<"v", "i", "r", "t", "u", "a", "l", " ", "m", "a", "c", "h", "i", "n", "e">>, <<"b", "o", "g", "u", "s">>, <<>> }

\* CloudServiceMapper.get_node_class(service, provider)
CallGetNodeClass ==
  \E service \in CatalogNames, provider \in Providers :
    LET found == GetNodeClass(service, provider)
    IN  Returns(IF found.ok
                THEN Success("get_node_class", 0,
                             [service |-> service, provider |-> provider,
                              node_type |-> found.node_type])
                ELSE Failure("get_node_class", 0, found.error,
                             [service |-> service, provider |-> provider,
                              available |-> found.available]))

\* ServiceNameNormalizer.suggest_services(service, provider) for keys, parts
\* of keys, names that hold a key, names that share their letters with a
\* key, names of nothing
CallSuggestServices ==
  \E service \in CatalogNames \cup
        { <<"E", "C", "2">>, <<"A", "W", "S", " ", "L", "a", "m", "b", "d", "a">>, <<"c", "l", "o", "u", "d">>, <<"d", "b">>, <<"s">>, <<"e", "c", "2", " ", "i", "n", "s", "t", "a", "n", "c", "e">>, <<"e", "c", "s", "2">>,
          <<"l", "a", "m", "d", "b", "a">>, <<"b", "e", "l">>, <<"s", "q", "l">>, <<"s", "t", "o", "r", "a", "g", "e">>, <<"l", "o", "a", "d", " ", "b", "a", "l", "a", "n", "c", "e", "r">>, <<"V", "i", "r", "t", "u", "a", "l", " ", "M", "a", "c", "h", "i", "n", "e">>,
          <<"b", "l", "o", "b">>, <<"k", "u", "b", "e", "r", "n", "e", "t", "e", "s">>, <<"z", "z", "z">>, <<>>, <<"_">> },
     provider \in Providers :
    Returns(Success("suggest_services", 0,
                    [service |-> service, provider |-> provider,
                     suggestions |-> SuggestServices(service, provider)]))

(***************************************************************************)
(* POST /generate-diagram (main.py) and DiagramAgent.generate_diagram      *)
(* (diagram_agent.py).  validate_description and                           *)
(* create_diagram_from_description are imported by the agent and defined   *)
(* nowhere in the repository: each is one of its two outcomes.             *)
(***************************************************************************)
\* validate_description(request.description) returns, or raises ValidationError
ValidateDescriptionOutcomes == {"returns", "raises"}

\* create_diagram_from_description(...) returns a path, or raises
CreateDiagramOutcomes == {"returns", "raises"}

\* the fields of a pydantic model that have no default
ErrorResponseRequired == {"error", "error_type"}

DiagramResponseRequired == {"diagram_path", "structure", "generation_time_seconds"}

\* Model(**given) raises pydantic's ValidationError when a required field
\* is not given
ModelValidates(required, given) == required \subseteq given

\* ErrorResponse(error=str(e), details={"type": type}) inside an except
\* clause: the response, or the exception that leaves generate_diagram
AgentErrorResponse(type) ==
  IF ModelValidates(ErrorResponseRequired, {"error", "details"})
  THEN [kind |-> "ErrorResponse", type |-> type]
  ELSE [kind |-> "raised", type |-> "pydantic_validation_error"]

\* DiagramAgent.generate_diagram(request)
AgentGenerateDiagram(validation, generation) ==
  IF validation = "raises" THEN AgentErrorResponse("validation_error")
  ELSE IF generation = "raises" THEN AgentErrorResponse("generation_error")
  ELSE IF ~ModelValidates(DiagramResponseRequired, {"diagram_path", "generation_time_seconds"})
  THEN AgentErrorResponse("generation_error")
  ELSE [kind |-> "DiagramResponse", type |-> "None"]

\* generate_diagram_endpoint(request): the status code of the response
GenerateDiagramEndpoint(validation, generation) ==
  LET result == AgentGenerateDiagram(validation, generation)
  IN  IF result.kind = "raised" THEN 500
      ELSE IF result.kind = "ErrorResponse" THEN 400
      ELSE 200

CallGenerateDiagramEndpoint ==
  \E validation \in ValidateDescriptionOutcomes, generation \in CreateDiagramOutcomes :
    LET response == [validation |-> validation, generation |-> generation,
                     status_code |-> GenerateDiagramEndpoint(validation, generation)]
    IN  Returns(IF response.status_code = 200
                THEN Success("generate_diagram_endpoint", 0, response)
                ELSE Failure("generate_diagram_endpoint", 0, "http_exception", response))

NextFunctions ==
  \/ CallValidateId
  \/ CallValidateDiagramLimits
  \/ CallNormalizeServiceName
  \/ CallGetNodeClass
  \/ CallSuggestServices
  \/ CallGenerateDiagramEndpoint

SpecFunctions == Init /\ [][NextFunctions]_vars

(***************************************************************************)
(* SpecNested: one caller that creates a diagram, clusters under parents   *)
(* that exist, do not exist or are the cluster itself, and a node that     *)
(* names a cluster, and renders it.                                        *)
(***************************************************************************)
\* successful add_node / create_cluster calls of the caller of SpecNested
MaxNestedOps == 3
\* the cluster ids create_cluster takes, and the references to them (or to
\* no cluster) that add_node and create_cluster take
NestedClusterIds == { <<"t", "i", "e", "r">>, <<"d", "a", "t", "a">> }
NestedClusterRefs == { NoneVal, <<"t", "i", "e", "r">>, <<"d", "a", "t", "a">> }

NextNested ==
  \/ registry = {} /\ CallCreate(Titles, FilenameInputs)
  \/ \E diagram_id \in DiagramIds, node_id \in NodeIdInputs, sp \in ServiceInputs,
        label \in LabelInputs, cluster_id \in NestedClusterRefs :
       /\ AddNode(diagram_id, node_id, sp[1], sp[2], label, cluster_id)
       /\ TotalOps(okCalls') <= MaxNestedOps
  \/ \E diagram_id \in DiagramIds, cluster_id \in NestedClusterIds, label \in LabelInputs,
        parent \in NestedClusterRefs :
       /\ CreateCluster(diagram_id, cluster_id, label, parent)
       /\ TotalOps(okCalls') <= MaxNestedOps
  \/ CallRenderBegin({"t1"})
  \/ \E outcome \in RenderOutcomes : RenderDraw("t1", outcome, 1024)
  \/ CallRenderFinish({"t1"})

SpecNested == Init /\ [][NextNested]_vars

(***************************************************************************)
(* SpecEdges: one caller that creates a diagram, adds two nodes and two    *)
(* clusters in any order, connects the nodes in both kinds, the same pair  *)
(* more than once, and renders it with the id it was given; a call made    *)
(* inside the Diagram block may raise.                                     *)
(***************************************************************************)
MaxEdgeOps == 4

NextEdges ==
  \/ issued = 0 /\ CallCreate(Titles, FilenameInputs)
  \/ \E diagram_id \in 1..issued, node_id \in BuildNodeIds, sp \in ServiceInputs,
        label \in LabelInputs :
       /\ AddNode(diagram_id, node_id, sp[1], sp[2], label, NoneVal)
       /\ TotalOps(okCalls') <= MaxEdgeOps
  \/ \E diagram_id \in 1..issued, cluster_id \in NestedClusterIds, label \in LabelInputs :
       /\ CreateCluster(diagram_id, cluster_id, label, NoneVal)
       /\ TotalOps(okCalls') <= MaxEdgeOps
  \/ \E diagram_id \in 1..issued, source \in BuildNodeIds, target \in BuildNodeIds,
        label \in ConnectionLabelInputs, bidirectional \in BOOLEAN :
       /\ ConnectNodes(diagram_id, source, target, label, bidirectional)
       /\ TotalOps(okCalls') <= MaxEdgeOps
  \/ \E diagram_id \in 1..issued : RenderBegin("t1", diagram_id)
  \/ \E outcome \in RenderOutcomes \cup {"build_raise"} :
       RenderDraw("t1", outcome, 1024)
  \/ CallRenderFinish({"t1"})

SpecEdges == Init /\ [][NextEdges]_vars

(***************************************************************************)
(* SpecFrame: one caller that creates MaxSessions sessions, builds and     *)
(* renders them in turn, a call on one while another holds what it was     *)
(* given.                                                                  *)
(***************************************************************************)
MaxFrameOps == 1

NextFrame ==
  \/ \E title \in Titles, direction \in Directions, filename \in FilenameInputs :
       /\ issued < MaxSessions
       /\ CreateDiagramStructure(title, direction, filename)
  \/ \E diagram_id \in SessionIds, node_id \in NodeIdInputs, sp \in ServiceInputs,
        label \in LabelInputs, cluster_id \in BuildClusterRefs :
       /\ AddNode(diagram_id, node_id, sp[1], sp[2], label, cluster_id)
       /\ SessionOps(okCalls') <= MaxFrameOps
  \/ \E diagram_id \in SessionIds, cluster_id \in ClusterIdInputs, label \in LabelInputs :
       /\ CreateCluster(diagram_id, cluster_id, label, NoneVal)
       /\ SessionOps(okCalls') <= MaxFrameOps
  \/ \E diagram_id \in SessionIds, source \in NodeIdInputs, target \in NodeIdInputs,
        label \in ConnectionLabelInputs, bidirectional \in BOOLEAN :
       /\ ConnectNodes(diagram_id, source, target, label, bidirectional)
       /\ SessionOps(okCalls') <= MaxFrameOps
  \/ \E diagram_id \in SessionIds : RenderBegin("t1", diagram_id)
  \/ \E outcome \in RenderOutcomes : RenderDraw("t1", outcome, 1024)
  \/ CallRenderFinish({"t1"})

SpecFrame == InitSessions /\ [][NextFrame]_vars

(***************************************************************************)
(* SpecFiles: one caller that creates a diagram under a generated filename *)
(* or a filename of its own, with the extension .png, with another         *)
(* extension or with none, adds nodes and renders it.                      *)
(***************************************************************************)
CallerFilenames == { NoneVal, <<"a", "r", "c", "h", ".", "p", "n", "g">>, <<"a", "r", "c", "h">>, <<"a", "r", "c", "h", ".", "s", "v", "g">>, <<"v", "1", ".", "2">> }

NextFiles ==
  \/ issued = 0 /\ CallCreate(Titles, CallerFilenames)
  \/ CallAddNode(BuildNodeIds, ServiceInputs, LabelInputs, ClusterRefInputs)
  \/ CallRenderBegin({"t1"})
  \/ CallRenderDraw({"t1"})
  \/ CallRenderFinish({"t1"})

SpecFiles == Init /\ [][NextFiles]_vars

(***************************************************************************)
(* Claims.                                                                 *)
(***************************************************************************)
Nodes(diagram_id) == DictKeys(heap[diagram_id].nodes)

NotFound(result, op, diagram_id) ==
  result = Failure(op, diagram_id, "diagram_not_found", NoneVal)

\* C1: on a session of the store, connect_nodes returns a not-found failure
\* exactly when the source or the target is not a key of the session's nodes
\* at the call, and a call that fails leaves the connection list as it was.
\* A success names both ends of the call in its result, a failure the end
\* it did not find.
C1_ConnectFailsIffEndpointMissing ==
  [][(ret'.op = "connect_nodes" /\ pc' = pc /\ ret'.diagram_id \in registry) =>
       LET diagram_id == ret'.diagram_id
       IN  IF ret'.success
           THEN /\ ret'.result.source_node_id \in Nodes(diagram_id)
                /\ ret'.result.target_node_id \in Nodes(diagram_id)
           ELSE /\ ret'.error \in {"source_not_found", "target_not_found"}
                /\ ret'.detail \notin Nodes(diagram_id)
                /\ heap'[diagram_id].connections = heap[diagram_id].connections
    ]_vars

\* a connect_nodes call has failed on a missing target in a session that
\* already holds a connection
C1_Witness ==
  /\ ret.op = "connect_nodes"
  /\ ret.error = "target_not_found"
  /\ ret.diagram_id \in registry
  /\ Len(heap[ret.diagram_id].connections) > 0

\* C2: once render_diagram has returned success for a diagram id, the id is
\* not a key of the registry, and every later add_node, create_cluster,
\* connect_nodes and render_diagram call with that id returns the
\* diagram-not-found failure.
C2_RenderedIdStaysGone ==
  [][/\ \A diagram_id \in DiagramIds :
          renderOk'[diagram_id] > 0 => diagram_id \notin registry'
     /\ \A diagram_id \in DiagramIds :
          renderOk[diagram_id] > 0 =>
            /\ \A node_id \in NodeIdInputs, sp \in ServiceInputs, label \in LabelInputs,
                  cluster_id \in ClusterRefInputs :
                 AddNode(diagram_id, node_id, sp[1], sp[2], label, cluster_id)
                   => NotFound(ret', "add_node", diagram_id)
            /\ \A cluster_id \in ClusterIdInputs, label \in LabelInputs,
                  parent \in ClusterRefInputs :
                 CreateCluster(diagram_id, cluster_id, label, parent)
                   => NotFound(ret', "create_cluster", diagram_id)
            /\ \A source \in NodeIdInputs, target \in NodeIdInputs,
                  label \in ConnectionLabelInputs, bidirectional \in BidirectionalInputs :
                 ConnectNodes(diagram_id, source, target, label, bidirectional)
                   => NotFound(ret', "connect_nodes", diagram_id)
            /\ \A t \in Threads :
                 RenderBegin(t, diagram_id) => NotFound(ret', "render_diagram", diagram_id)
    ]_vars

\* a render_diagram call on an id rendered before has returned not-found
C2_Witness ==
  /\ ret.op = "render_diagram"
  /\ ret.error = "diagram_not_found"
  /\ renderOk[ret.diagram_id] > 0

\* C3: for every diagram id at most one render_diagram call returns success,
\* also when two calls on the id both pass the registry check before either
\* deletes the key.
C3_AtMostOneRenderSucceeds ==
  \A diagram_id \in DiagramIds : renderOk[diagram_id] <= 1

\* of two overlapping render_diagram calls on one id, one has returned
\* success and the other has failed on the del
C3_Witness ==
  /\ ret.op = "render_diagram"
  /\ ret.error = "key_error"
  /\ renderOk[ret.diagram_id] = 1

FailedRender(result) ==
  /\ result.op = "render_diagram"
  /\ ~result.success
  /\ result.error \in {"renderer_raised", "file_not_created"}

\* C4: a render_diagram call on a session of the store removes the session
\* whatever the outcome: when the renderer raised or the file is missing the
\* id is no key of the registry afterwards, and a retry returns not-found.
C4_FailedRenderRemovesSession ==
  [][/\ FailedRender(ret') => ret'.diagram_id \notin registry'
     /\ FailedRender(ret) =>
          \A t \in Threads :
            RenderBegin(t, ret.diagram_id)
              => NotFound(ret', "render_diagram", ret.diagram_id)
    ]_vars

\* C5: when every create_cluster call on the session had no parent, a
\* successful render_diagram returns a structure with as many nodes,
\* connections and clusters as add_node, connect_nodes and create_cluster
\* calls returned success on the session.
C5_StructureCountsCalls ==
  (ret.op = "render_diagram" /\ ret.success
     /\ okCalls[ret.diagram_id].nested_cluster = 0) =>
    /\ Len(ret.result.structure.nodes) = okCalls[ret.diagram_id].add_node
    /\ Len(ret.result.structure.connections) = okCalls[ret.diagram_id].connect_nodes
    /\ Len(ret.result.structure.clusters) = okCalls[ret.diagram_id].create_cluster

\* C6: add_node with a node id the session already holds returns failure and
\* leaves the node's record and every cluster's member list as they were.
C6_DuplicateNodeRejected ==
  [][\A diagram_id \in registry, node_id \in BuildNodeIds, sp \in BuildServices,
        label \in LabelInputs, cluster_id \in BuildClusterRefs :
        (node_id \in Nodes(diagram_id)
           /\ AddNode(diagram_id, node_id, sp[1], sp[2], label, cluster_id)) =>
          /\ ~ret'.success
          /\ heap'[diagram_id].nodes = heap[diagram_id].nodes
          /\ heap'[diagram_id].clusters = heap[diagram_id].clusters
    ]_vars

\* C7: every session holds at most 50 nodes, 100 connections and 10 clusters.
C7_SessionWithinLimits ==
  \A diagram_id \in registry :
    ValidateDiagramLimits(Len(heap[diagram_id].nodes),
                          Len(heap[diagram_id].connections),
                          Len(heap[diagram_id].clusters)) = "ok"

\* C8: every node id and cluster id a session stores passes the identifier
\* rule, and every stored node and cluster label passes the label rule.
C8_StoredIdsAndLabelsValid ==
  \A diagram_id \in registry :
    /\ \A i \in 1..Len(heap[diagram_id].nodes) :
         /\ ValidateId(heap[diagram_id].nodes[i].key) = "ok"
         /\ ValidateLabel(heap[diagram_id].nodes[i].info.label) = "ok"
    /\ \A i \in 1..Len(heap[diagram_id].clusters) :
         /\ ValidateId(heap[diagram_id].clusters[i].key) = "ok"
         /\ ValidateLabel(heap[diagram_id].clusters[i].info.label) = "ok"

\* C9: add_node with a reserved word as node id returns an identifier
\* validation failure whatever the service is, without a catalog lookup (so
\* never the catalog's error).
C9_ReservedIdRejectedBeforeCatalog ==
  [][\A diagram_id \in registry, node_id \in InputIds, sp \in InputServices,
        label \in InputLabels, cluster_id \in ClusterRefInputs :
        (ValidateId(node_id) = "reserved_word"
           /\ AddNode(diagram_id, node_id, sp[1], sp[2], label, cluster_id)) =>
          /\ ~ret'.success
          /\ ret'.error = "reserved_word"
    ]_vars

\* C10: create_diagram_structure with a title validate_title rejects returns
\* failure and inserts nothing; with a valid title it returns success with an
\* id that was no key of the registry, and inserts a session without nodes,
\* clusters and connections.
C10_CreateValidatesTitle ==
  [][\A title \in InputTitles, direction \in Directions, filename \in FilenameInputs :
        CreateDiagramStructure(title, direction, filename) =>
          IF ValidateTitle(title) # "ok"
          THEN ~ret'.success /\ registry' = registry
          ELSE /\ ret'.success
               /\ ret'.result.diagram_id \notin registry
               /\ registry' = registry \cup {ret'.result.diagram_id}
               /\ heap'[ret'.result.diagram_id].nodes = <<>>
               /\ heap'[ret'.result.diagram_id].clusters = <<>>
               /\ heap'[ret'.result.diagram_id].connections = <<>>
    ]_vars

\* C11: after add_node succeeds, the node_type stored in the node's record
\* and returned to the caller is the node_type the provider's table holds
\* for the key service.lower() with "-" and " " replaced by "_"; it depends
\* on no other input of the call.
C11_CategoryFromCatalog ==
  [][\A diagram_id \in registry, node_id \in BuildNodeIds, sp \in CatalogServices,
        label \in LabelInputs, cluster_id \in BuildClusterRefs :
        (AddNode(diagram_id, node_id, sp[1], sp[2], label, cluster_id) /\ ret'.success) =>
          \E i \in 1..Len(SERVICE_MAPPINGS(sp[2])) :
            LET entry == SERVICE_MAPPINGS(sp[2])[i]
            IN  /\ entry.key = Replace(Replace(Lower(sp[1]), "-", "_"), " ", "_")
                /\ ret'.result.node_type = entry.node_type
                /\ DictGet(heap'[diagram_id].nodes, node_id).info.node_type = entry.node_type
    ]_vars

\* add_node has stored a node of service "Cloud SQL" of gcp as a database
C11_Witness ==
  /\ ret.op = "add_node"
  /\ ret.success
  /\ ret.result.service = <<"C", "l", "o", "u", "d", " ", "S", "Q", "L">>
  /\ ret.result.node_type = "database"
  /\ \E i \in 1..Len(heap[ret.diagram_id].nodes) :
       heap[ret.diagram_id].nodes[i].info.node_type = "database"

\* C12: add_node, create_cluster, connect_nodes and render_diagram called
\* with a diagram id that is no key of the registry (never issued, or
\* deleted) return the diagram-not-found failure, and the registry and every
\* session are as before the call.
C12_UnknownIdNotFound ==
  [][\A diagram_id \in DiagramIds \ registry :
        /\ \A node_id \in NodeIdInputs, sp \in ServiceInputs, label \in LabelInputs,
              cluster_id \in ClusterRefInputs :
             AddNode(diagram_id, node_id, sp[1], sp[2], label, cluster_id)
               => /\ NotFound(ret', "add_node", diagram_id)
                  /\ registry' = registry /\ heap' = heap
        /\ \A cluster_id \in ClusterIdInputs, label \in LabelInputs,
              parent \in ClusterRefInputs :
             CreateCluster(diagram_id, cluster_id, label, parent)
               => /\ NotFound(ret', "create_cluster", diagram_id)
                  /\ registry' = registry /\ heap' = heap
        /\ \A source \in NodeIdInputs, target \in NodeIdInputs,
              label \in ConnectionLabelInputs, bidirectional \in BidirectionalInputs :
             ConnectNodes(diagram_id, source, target, label, bidirectional)
               => /\ NotFound(ret', "connect_nodes", diagram_id)
                  /\ registry' = registry /\ heap' = heap
        /\ \A t \in Threads :
             RenderBegin(t, diagram_id)
               => /\ NotFound(ret', "render_diagram", diagram_id)
                  /\ registry' = registry /\ heap' = heap
    ]_vars

\* add_node has returned not-found for an id that was never issued
C12_Witness ==
  /\ ret.op = "add_node"
  /\ ret.error = "diagram_not_found"
  /\ issued < ret.diagram_id
  /\ ret.diagram_id \notin registry

\* C13: add_node on a session of the registry with a service whose key is
\* not in the provider's table returns a failure whose error lists every key
\* of that provider's table, and the session is as before the call.
C13_CatalogMissListsKeys ==
  [][\A diagram_id \in registry, node_id \in BuildNodeIds, sp \in CatalogServices,
        label \in LabelInputs, cluster_id \in BuildClusterRefs :
        LET table == SERVICE_MAPPINGS(sp[2])
            key == Replace(Replace(Lower(sp[1]), "-", "_"), " ", "_")
        IN  ((\A i \in 1..Len(table) : table[i].key # key)
               /\ AddNode(diagram_id, node_id, sp[1], sp[2], label, cluster_id)) =>
              /\ ~ret'.success
              /\ ret'.error = "service_not_found"
              /\ \A i \in 1..Len(table) :
                   \E j \in 1..Len(ret'.detail) : ret'.detail[j] = table[i].key
              /\ heap' = heap
    ]_vars

\* add_node with a key of the aws table and provider gcp has failed with the
\* keys of the gcp table, on a session that holds a node
C13_Witness ==
  /\ ret.op = "add_node"
  /\ ret.error = "service_not_found"
  /\ Len(ret.detail) = Len(GcpServices)
  /\ ret.diagram_id \in registry
  /\ Len(heap[ret.diagram_id].nodes) > 0

\* C14: whenever create_diagram_structure, add_node, create_cluster or
\* connect_nodes returns a failure, the registry's keys and every session
\* (title, direction, filename, nodes, clusters, connections) are what they
\* were before the call.  ret is the result of the last call that returned:
\* a step that ends with a builder's failure in ret and moves no thread
\* of render_diagram is that builder's call.
C14_FailureLeavesStore ==
  [][(/\ ret'.op \in {"create_diagram_structure", "add_node", "create_cluster",
                      "connect_nodes"}
      /\ ~ret'.success
      /\ pc' = pc)
       => (registry' = registry /\ heap' = heap)
    ]_vars

\* add_node has failed on a catalog miss in a session that holds a node and
\* a cluster
C14_Witness ==
  /\ ret.op = "add_node"
  /\ ~ret.success
  /\ ret.error = "service_not_found"
  /\ ret.diagram_id \in registry
  /\ Len(heap[ret.diagram_id].nodes) > 0
  /\ Len(heap[ret.diagram_id].clusters) > 0

\* C15: every call of the five operations ends in a ToolResult, a success
\* without error or a failure with an error message, and never in an
\* exception: also when the catalog misses, the session is not found, the
\* renderer raises or the del finds the key gone.
C15_AlwaysToolResult ==
  ret.op # "none" =>
    /\ ~ret.raised
    /\ ret.success <=> ret.error = "None"

\* render_diagram has returned the failure of a renderer that raised
C15_Witness ==
  /\ ret.op = "render_diagram"
  /\ ~ret.raised
  /\ ~ret.success
  /\ ret.error = "renderer_raised"

\* C16: add_node on a session of the registry with a cluster id that is no
\* key of the session's clusters succeeds, stores the node and leaves every
\* cluster's member list as it was; with a cluster id that is a key of the
\* session's clusters it succeeds and appends the node id to that cluster's
\* member list and to no other.
C16_ClusterReferenceLenient ==
  [][\A diagram_id \in registry, node_id \in BuildNodeIds, sp \in ServiceInputs,
        label \in LabelInputs, cluster_id \in ClusterPairRefs \ {NoneVal} :
        AddNode(diagram_id, node_id, sp[1], sp[2], label, cluster_id) =>
          LET before == heap[diagram_id].clusters
              after  == heap'[diagram_id].clusters
          IN  /\ ret'.success
              /\ node_id \in DictKeys(heap'[diagram_id].nodes)
              /\ Len(after) = Len(before)
              /\ \A i \in 1..Len(before) :
                   /\ after[i].key = before[i].key
                   /\ after[i].nodes =
                        IF before[i].key = cluster_id
                        THEN Append(before[i].nodes, node_id)
                        ELSE before[i].nodes
    ]_vars

\* C17: the cluster entries of the structure a successful render_diagram
\* returns carry the member node ids of the session's clusters: the entry of
\* a cluster lists every node id add_node appended to the cluster's member
\* list.
C17_StructureListsMembers ==
  [][\A t \in Threads :
        (RenderFinish(t) /\ ret'.success) =>
          LET clusters == heap[local[t].diagram_id].clusters
              entries  == ret'.result.structure.clusters
          IN  /\ Len(entries) = Len(clusters)
              /\ \A i \in 1..Len(clusters) :
                   /\ entries[i].id = clusters[i].key
                   /\ entries[i].nodes = clusters[i].nodes
    ]_vars

\* C18: when the renderer has closed without raising and no file is at the
\* output path of the session, render_diagram returns a failure.
C18_MissingFileIsFailure ==
  [][\A t \in Threads :
        (RenderFinish(t) /\ local[t].output_path \notin DOMAIN files) =>
          /\ ~ret'.success
          /\ ret'.error = "file_not_created"
    ]_vars

\* the renderer has closed without a file and render_diagram has returned
\* the failure, for a session that holds a node
C18_Witness ==
  /\ ret.op = "render_diagram"
  /\ ret.error = "file_not_created"
  /\ ret.diagram_id \in registry
  /\ Len(heap[ret.diagram_id].nodes) > 0
  /\ files = <<>>

\* C19: every successful render_diagram result reports a positive
\* file_size_bytes; a render whose file is empty, or whose size cannot be
\* read, is no success.
C19_SuccessHasPositiveSize ==
  (ret.op = "render_diagram" /\ ret.success) => ret.result.file_size_bytes > 0

\* the session after a call that runs alone on diagram_data
ApplyCall(diagram_data, call) ==
  LET a == call.args
  IN  CASE call.op = "add_node" ->
             LET found == GetNodeClass(a[2], a[3])
             IN  IF found.ok
                 THEN StoreNode(diagram_data,
                                NodeInfo(a[1], a[4], a[2], a[3], found.node_type, a[5]),
                                found.class)
                 ELSE diagram_data
        [] call.op = "create_cluster" ->
             StoreCluster(diagram_data, ClusterInfo(a[1], a[2]), a[3])
        [] call.op = "connect_nodes" ->
             IF ConnectCheck(diagram_data, a[1], a[2]) = "ok"
             THEN StoreConnection(diagram_data, ConnectionInfo(a[1], a[2], a[3], a[4]))
             ELSE diagram_data

\* what a call that runs alone on diagram_data returns
CallResult(diagram_data, call) ==
  LET a == call.args
      ok == CASE call.op = "add_node" -> GetNodeClass(a[2], a[3]).ok
              [] call.op = "create_cluster" -> TRUE
              [] call.op = "connect_nodes" -> ConnectCheck(diagram_data, a[1], a[2]) = "ok"
  IN  IF ok THEN "success" ELSE "failure"

Done(t) == pc[t] = "idle" /\ local[t].call.op # "none"

\* dict equality: the same keys with the same values, in whatever order the
\* keys were inserted
SameDict(d, e) == Range(d) = Range(e)

\* two sessions with equal nodes and clusters dicts and equal connections
\* lists (a cluster's value holds its member list, a list)
SameSession(x, y) ==
  /\ x.title = y.title /\ x.direction = y.direction /\ x.filename = y.filename
  /\ SameDict(x.nodes, y.nodes)
  /\ SameDict(x.clusters, y.clusters)
  /\ x.connections = y.connections

\* first's call, then second's, each alone, give the session and the results
SerialOrder(first, second) ==
  LET base == first.base
      mid  == ApplyCall(base, first.call)
  IN  /\ first.result = CallResult(base, first.call)
      /\ second.result = CallResult(mid, second.call)
      /\ SameSession(heap[first.diagram_id], ApplyCall(mid, second.call))

\* C20: when two threads have each made one add_node, create_cluster or
\* connect_nodes call on the same session at the same time, the session and
\* the two results are those of the two calls run one after the other in
\* one of the two orders: no update of a successful call is lost.  The
\* nodes and clusters dicts are compared as dicts; the order in which two
\* concurrent add_node calls insert their keys can differ from the order
\* in which they append to a member list.
C20_ConcurrentCallsSerialize ==
  (Done("t1") /\ Done("t2")) =>
    \/ SerialOrder(local["t1"], local["t2"])
    \/ SerialOrder(local["t2"], local["t1"])

\* connect_nodes of one thread has succeeded on the node that the add_node
\* of the other thread stored, and add_node has returned after it
C20_Witness ==
  /\ Done("t1") /\ Done("t2")
  /\ local["t1"].call.op = "add_node"
  /\ local["t2"].call.op = "connect_nodes"
  /\ local["t2"].result = "success"
  /\ local["t1"].call.args[1] \notin DictKeys(local["t1"].base.nodes)
  /\ local["t2"].call.args[1] = local["t1"].call.args[1]
  /\ ret.op = "add_node"

\* C21: while a thread is inside render_diagram on one session, every
\* operation on another session id can take its next step: create, add_node,
\* create_cluster and connect_nodes return, and a render_diagram of another
\* thread begins, draws and finishes; none waits for the render to return.
C21_RenderBlocksNoOtherSession ==
  \A diagram_id \in SessionIds :
    (\E t \in Threads : pc[t] # "idle" /\ local[t].diagram_id # diagram_id) =>
      /\ \A title \in Titles, direction \in Directions, filename \in FilenameInputs :
           ENABLED CreateDiagramStructure(title, direction, filename)
      /\ \A node_id \in NodeIdInputs, sp \in ServiceInputs, label \in LabelInputs,
            cluster_id \in ClusterRefInputs :
           ENABLED AddNode(diagram_id, node_id, sp[1], sp[2], label, cluster_id)
      /\ \A cluster_id \in ClusterIdInputs, label \in LabelInputs,
            parent \in ClusterRefInputs :
           ENABLED CreateCluster(diagram_id, cluster_id, label, parent)
      /\ \A source \in NodeIdInputs, target \in NodeIdInputs,
            label \in ConnectionLabelInputs, bidirectional \in BidirectionalInputs :
           ENABLED ConnectNodes(diagram_id, source, target, label, bidirectional)
      /\ \A u \in Threads :
           /\ pc[u] = "idle" => ENABLED RenderBegin(u, diagram_id)
           /\ (pc[u] = "rendering" /\ local[u].diagram_id = diagram_id) =>
                \A outcome \in RenderOutcomes, size \in FileSizes :
                  ENABLED RenderDraw(u, outcome, size)
           /\ (pc[u] = "rendered" /\ local[u].diagram_id = diagram_id) =>
                ENABLED RenderFinish(u)

\* two renders in progress at once, on two sessions: the second began while
\* the first had not returned, and has drawn its file
C21_Witness ==
  /\ pc["t1"] = "rendering"
  /\ pc["t2"] = "rendered"
  /\ local["t1"].diagram_id # local["t2"].diagram_id
  /\ {local["t1"].diagram_id, local["t2"].diagram_id} \subseteq registry

\* C22: a key of the registry stays a key in every step but one: the step in
\* which a render_diagram call on that very id returns success.  No create,
\* add_node, create_cluster or connect_nodes call, no failed render and no
\* call on another id removes it.
C22_OnlyItsRenderRemovesSession ==
  [][\A diagram_id \in registry :
        diagram_id \notin registry' =>
          /\ ret'.op = "render_diagram"
          /\ ret'.diagram_id = diagram_id
          /\ ret'.success
    ]_vars

\* session 2 has been rendered and removed, and session 1, created before
\* it and built on, is still in the registry
C22_Witness ==
  /\ ret.op = "render_diagram"
  /\ ret.success
  /\ ret.diagram_id = 2
  /\ registry = {1}
  /\ okCalls[1].add_node > 0

\* C23: validate_id returns without raising if and only if the string is
\* not empty, has at most 50 characters, every character is a letter, a
\* digit, "_" or "-", the first and the last character are neither "-" nor
\* "_", and its lower-case form is no reserved word.
C23_ValidateIdAcceptsIff ==
  ret.op = "validate_id" =>
    LET id_value == Input(ret)
    IN  ret.success <=>
          /\ id_value # <<>>
          /\ Len(id_value) <= 50
          /\ \A i \in 1..Len(id_value) : id_value[i] \in IdChars
          /\ id_value[1] \notin {"-", "_"}
          /\ id_value[Len(id_value)] \notin {"-", "_"}
          /\ Lower(id_value) \notin RESERVED_IDS

\* C28: validate_diagram_limits raises if and only if node_count > 50 or
\* connection_count > 100 or cluster_count > 10; a count equal to its ceiling
\* is accepted.
C28_LimitsRaiseIffOver ==
  ret.op = "validate_diagram_limits" =>
    LET counts == Input(ret)
    IN  ~ret.success <=> (counts[1] > 50 \/ counts[2] > 100 \/ counts[3] > 10)

\* the three counts at their ceilings have been accepted
C28_Witness ==
  /\ ret.op = "validate_diagram_limits"
  /\ ret.success
  /\ ret.result = <<50, 100, 10>>

\* C24: for every key of SERVICE_ALIASES, written in any casing and with
\* spaces or hyphens in place of its underscores, normalize_service_name
\* returns the alias target of the key.
C24_NormalizeAppliesAliases ==
  ret.op = "normalize_service_name" =>
    \A i \in 1..Len(SERVICE_ALIASES) :
      Replace(Replace(Lower(ret.result.service), " ", "_"), "-", "_") = SERVICE_ALIASES[i].key
        => ret.result.normalized = SERVICE_ALIASES[i].target

C26_SuggestionsInPriorityOrder ==
  ret.op = "suggest_services" =>
    LET normalized  == NormalizeServiceName(ret.result.service)
        keys        == Range(ServiceKeys(ret.result.provider))
        suggestions == ret.result.suggestions
        Related(key) == Contains(key, normalized) \/ Contains(normalized, key)
        Similar(key) ==
          /\ normalized # <<>>
          /\ 10 * Cardinality(Range(normalized) \cap Range(key))
               > 6 * Cardinality(Range(normalized) \cup Range(key))
    IN  /\ Len(suggestions) <= 5
        /\ Range(suggestions) \subseteq keys
        /\ normalized \in keys => (suggestions # <<>> /\ suggestions[1] = normalized)
        /\ (\E key \in keys : Related(key)) =>
             /\ suggestions # <<>>
             /\ \A i \in 1..Len(suggestions) : Related(suggestions[i])
        /\ ~(\E key \in keys : Related(key)) =>
             /\ \A i \in 1..Len(suggestions) : Similar(suggestions[i])
             /\ (\E key \in keys : Similar(key)) => suggestions # <<>>

\* a name that holds the key "ecs" and shares three of its four characters
\* with the key "ec2": "ecs" is suggested, "ec2" is not
C26_Witness ==
  /\ ret.op = "suggest_services"
  /\ ret.result.service = <<"e", "c", "s", "2">>
  /\ ret.result.provider = "aws"
  /\ ret.result.suggestions = << <<"e", "c", "s">> >>

\* C27: POST /generate-diagram answers 400 when the description fails
\* validation, and 500 when validation passes and the generation fails.
C27_ValidationIs400OthersAre500 ==
  ret.op = "generate_diagram_endpoint" =>
    LET response == Input(ret)
    IN  /\ response.validation = "raises" => response.status_code = 400
        /\ (response.validation = "returns" /\ response.generation = "raises")
             => response.status_code = 500


\* C29: the renderer makes a grouping for exactly the clusters whose parent
\* is None; a node is drawn inside a grouping only when its cluster
\* reference names such a cluster, and a node whose reference names a
\* nested cluster or no cluster of the session is drawn outside of every
\* grouping.
C29_OnlyTopLevelClustersDrawn ==
  [][\A t \in Threads :
       (pc[t] = "rendering" /\ pc'[t] # "rendering"
          /\ local[t].diagram_id \in DOMAIN heap') =>
         LET before == heap[local[t].diagram_id]
             diag == heap'[local[t].diagram_id].diagram_obj[1]
             top == {before.clusters[i].key : i \in
                       {j \in 1..Len(before.clusters) :
                          before.clusters[j].parent = NoneVal}}
         IN  /\ DictKeys(diag.clusters) = top
             /\ DictKeys(diag.nodes) = DictKeys(before.nodes)
             /\ \A i \in 1..Len(before.nodes) :
                  LET reference == before.nodes[i].info.cluster
                      drawn == DictGet(diag.nodes, before.nodes[i].key)
                  IN  /\ drawn.context # NoneVal =>
                           (drawn.context = reference /\ reference \in top)
                      /\ reference \notin top => drawn.context = NoneVal]_vars

\* a session just drawn with cluster "tier" at the top, cluster "data"
\* under it and a node that names "data": one grouping, the node outside
C29_Witness ==
  /\ pc["t1"] = "rendered"
  /\ local["t1"].diagram_id \in registry
  /\ LET diagram_data == heap[local["t1"].diagram_id]
     IN  /\ Len(diagram_data.clusters) = 2
         /\ DictGet(diagram_data.clusters, <<"d", "a", "t", "a">>).parent = <<"t", "i", "e", "r">>
         /\ Len(diagram_data.nodes) = 1
         /\ diagram_data.nodes[1].info.cluster = <<"d", "a", "t", "a">>
         /\ DictKeys(diagram_data.diagram_obj[1].clusters) = { <<"t", "i", "e", "r">> }
         /\ diagram_data.diagram_obj[1].nodes[1].context = NoneVal

\* C30: create_cluster on a session of the store succeeds and stores the
\* parent id it was given when that id names no cluster of the session or
\* names the cluster being created.
C30_ParentStoredUnchecked ==
  [][ret'.op = "create_cluster" =>
      \A diagram_id \in registry, cluster_id \in NestedClusterIds,
        label \in LabelInputs, parent \in NestedClusterRefs \ {NoneVal} :
       ((parent \notin DictKeys(heap[diagram_id].clusters) \/ parent = cluster_id)
          /\ CreateCluster(diagram_id, cluster_id, label, parent)) =>
         /\ ret'.success
         /\ cluster_id \in DictKeys(heap'[diagram_id].clusters)
         /\ DictGet(heap'[diagram_id].clusters, cluster_id).parent = parent]_vars

\* cluster "tier" was created under "data" when the session had no cluster,
\* then cluster "data" under itself: both calls succeeded, both parents are
\* stored
C30_Witness ==
  /\ ret.op = "create_cluster"
  /\ ret.success
  /\ ret.diagram_id \in registry
  /\ okCalls[ret.diagram_id].create_cluster = 2
  /\ LET clusters == heap[ret.diagram_id].clusters
     IN  /\ Len(clusters) = 2
         /\ clusters[1].key = <<"t", "i", "e", "r">> /\ clusters[1].parent = <<"d", "a", "t", "a">>
         /\ clusters[2].key = <<"d", "a", "t", "a">> /\ clusters[2].parent = <<"d", "a", "t", "a">>

\* C31: connect_nodes never deduplicates: a successful call appends exactly
\* one connection record, also when an equal record is already there; and
\* the renderer makes exactly one edge per recorded connection, in the order
\* of the records, when no call of the block raises: a forward edge for a
\* connection that is not bidirectional, one edge without direction for one
\* that is.
C31_OneRecordAndOneEdgePerConnect ==
  [][/\ (ret'.op = "connect_nodes" /\ ret'.success /\ pc' = pc) =>
          \E bidirectional \in BOOLEAN, label \in ConnectionLabelInputs :
            heap'[ret'.diagram_id].connections =
              Append(heap[ret'.diagram_id].connections,
                     ConnectionInfo(ret'.result.source_node_id,
                                    ret'.result.target_node_id, label, bidirectional))
     /\ \A t \in Threads :
          (pc[t] = "rendering" /\ pc'[t] # "rendering"
             /\ ~(pc'[t] = "idle" /\ ret'.error = "call_raised")
             /\ local[t].diagram_id \in DOMAIN heap') =>
            LET connections == heap[local[t].diagram_id].connections
                edges == heap'[local[t].diagram_id].diagram_obj[1].edges
            IN  /\ Len(edges) = Len(connections)
                /\ \A i \in 1..Len(connections) :
                     /\ edges[i].source = connections[i].source
                     /\ edges[i].target = connections[i].target
                     /\ edges[i].label = connections[i].label
                     /\ edges[i].forward = ~connections[i].bidirectional]_vars

\* node "web1" was connected to "db1" twice with the same bidirectional
\* record and the session was drawn: two records, two edges, none forward
C31_Witness ==
  /\ pc["t1"] = "rendered"
  /\ local["t1"].diagram_id \in registry
  /\ LET diagram_data == heap[local["t1"].diagram_id]
     IN  /\ Len(diagram_data.connections) = 2
         /\ diagram_data.connections[1] = diagram_data.connections[2]
         /\ diagram_data.connections[1].source = <<"w", "e", "b", "1">>
         /\ diagram_data.connections[1].target = <<"d", "b", "1">>
         /\ diagram_data.connections[1].bidirectional
         /\ Len(diagram_data.diagram_obj[1].edges) = 2
         /\ ~diagram_data.diagram_obj[1].edges[1].forward

\* C32: when a call made inside the with Diagram block raises, the Diagram
\* context is closed all the same when render_diagram returns, and
\* render_diagram returns a failure.
C32_ContextClosedOnRaise ==
  [][\A t \in Threads :
       (pc[t] = "rendering" /\ pc'[t] = "idle") =>
         /\ ret'.op = "render_diagram"
         /\ ~ret'.success
         /\ ~ret'.raised
         /\ local[t].diagram_id \in DOMAIN heap' =>
              /\ Len(heap'[local[t].diagram_id].diagram_obj) = 1
              /\ heap'[local[t].diagram_id].diagram_obj[1].closed]_vars

\* the first object-making call of a render of a session with two nodes and
\* a connection raised: nothing was made, the context is closed, the result
\* is a failure
C32_Witness ==
  /\ ret.op = "render_diagram"
  /\ ret.error = "call_raised"
  /\ ~ret.success
  /\ ret.diagram_id \in registry
  /\ LET diagram_data == heap[ret.diagram_id]
     IN  /\ Len(diagram_data.nodes) = 2
         /\ Len(diagram_data.connections) = 1
         /\ diagram_data.diagram_obj[1].nodes = <<>>
         /\ diagram_data.diagram_obj[1].closed

\* C33: the structure a successful render_diagram returns lists the
\* connections in the order of the successful connect_nodes calls and the
\* nodes and clusters in the order in which their ids were first added:
\* a successful builder call puts a new id or connection at the end of its
\* collection and leaves the order of the others as it is, a second call
\* with a present id leaves the order as it is, no other step changes an
\* order, and the structure lists the collections as they stand.
C33_StructureInCallOrder ==
  [][LET Ids(d) == [i \in 1..Len(d) |-> d[i].key]
         Put(ids, id) == IF \E i \in 1..Len(ids) : ids[i] = id
                         THEN ids ELSE Append(ids, id)
     IN  /\ \A diagram_id \in registry \cap registry' :
              LET before == heap[diagram_id]
                  after == heap'[diagram_id]
                  built == pc' = pc /\ ret'.success /\ ret'.diagram_id = diagram_id
              IN  /\ Ids(after.nodes) =
                       IF built /\ ret'.op = "add_node"
                       THEN Put(Ids(before.nodes), ret'.result.node_id)
                       ELSE Ids(before.nodes)
                  /\ Ids(after.clusters) =
                       IF built /\ ret'.op = "create_cluster"
                       THEN Put(Ids(before.clusters), ret'.result.cluster_id)
                       ELSE Ids(before.clusters)
                  /\ IF built /\ ret'.op = "connect_nodes"
                     THEN /\ Len(after.connections) = Len(before.connections) + 1
                          /\ SubSeq(after.connections, 1, Len(before.connections))
                               = before.connections
                          /\ LET last == after.connections[Len(after.connections)]
                             IN  /\ last.source = ret'.result.source_node_id
                                 /\ last.target = ret'.result.target_node_id
                     ELSE after.connections = before.connections
         /\ (ret'.op = "render_diagram" /\ ret'.success /\ pc' # pc) =>
              LET structure == ret'.result.structure
                  session == heap[ret'.diagram_id]
              IN  /\ [i \in 1..Len(structure.nodes) |-> structure.nodes[i].id]
                       = Ids(session.nodes)
                  /\ [i \in 1..Len(structure.clusters) |-> structure.clusters[i].id]
                       = Ids(session.clusters)
                  /\ structure.connections = session.connections]_vars

\* node "db1" was added, then "web1", then "db1" once more, "web1" was
\* connected to "db1", and the render returned the nodes as db1, web1
C33_Witness ==
  /\ ret.op = "render_diagram"
  /\ ret.success
  /\ okCalls[ret.diagram_id].add_node = 3
  /\ Len(ret.result.structure.nodes) = 2
  /\ ret.result.structure.nodes[1].id = <<"d", "b", "1">>
  /\ ret.result.structure.nodes[2].id = <<"w", "e", "b", "1">>
  /\ Len(ret.result.structure.connections) = 1

\* C34: in every state, the source and the target of every connection of
\* every session are keys of the session's nodes, so that the renderer has
\* an object for both ends of every connection and leaves none out.
C34_ConnectionEndsAreNodes ==
  \A diagram_id \in DOMAIN heap :
    LET diagram_data == heap[diagram_id]
        node_objects == NodeObjects(diagram_data, ClusterObjects(diagram_data))
    IN  /\ \A i \in 1..Len(diagram_data.connections) :
             /\ diagram_data.connections[i].source \in DictKeys(diagram_data.nodes)
             /\ diagram_data.connections[i].target \in DictKeys(diagram_data.nodes)
        /\ Len(EdgeObjects(diagram_data, node_objects)) = Len(diagram_data.connections)

\* a session with the nodes "web1" and "db1" and two connections between
\* them, one in each direction, drawn with both edges
C34_Witness ==
  /\ pc["t1"] = "rendered"
  /\ local["t1"].diagram_id \in registry
  /\ LET diagram_data == heap[local["t1"].diagram_id]
     IN  /\ Len(diagram_data.nodes) = 2
         /\ Len(diagram_data.connections) = 2
         /\ diagram_data.connections[1].source = diagram_data.connections[2].target
         /\ diagram_data.connections[1].target = diagram_data.connections[2].source
         /\ diagram_data.connections[1].source # diagram_data.connections[1].target
         /\ Len(diagram_data.diagram_obj[1].edges) = 2

\* C35: in every state, for every session and every cluster of it, the
\* member list of the cluster holds exactly the ids of the nodes whose
\* cluster reference is that cluster, each id once.
C35_MembersAreReferringNodes ==
  \A diagram_id \in DOMAIN heap :
    LET diagram_data == heap[diagram_id]
    IN  \A i \in 1..Len(diagram_data.clusters) :
          LET members == diagram_data.clusters[i].nodes
              referring == {diagram_data.nodes[j].key : j \in
                              {k \in 1..Len(diagram_data.nodes) :
                                 diagram_data.nodes[k].info.cluster
                                   = diagram_data.clusters[i].key}}
          IN  /\ {members[j] : j \in 1..Len(members)} = referring
              /\ Len(members) = Cardinality(referring)

\* C36: create_cluster changes no cluster the session already has: the
\* label, the parent and the member list of every cluster that was there
\* before the call are the same after it.
C36_CreateClusterKeepsExisting ==
  [][(ret'.op = "create_cluster" /\ pc' = pc /\ ret'.diagram_id \in registry) =>
       LET before == heap[ret'.diagram_id].clusters
           after == heap'[ret'.diagram_id].clusters
       IN  \A i \in 1..Len(before) :
             /\ before[i].key \in DictKeys(after)
             /\ DictGet(after, before[i].key).info.label = before[i].info.label
             /\ DictGet(after, before[i].key).parent = before[i].parent
             /\ DictGet(after, before[i].key).nodes = before[i].nodes]_vars

C38_CheckedFileIsRenderedFile ==
  [][\A t \in Threads :
       (pc[t] = "rendered" /\ pc'[t] = "idle") =>
         /\ local[t].output_path = RendererTarget(local[t].output_path)
         /\ PathExists(files, RendererTarget(local[t].output_path)) =>
              (ret'.op = "render_diagram" /\ ret'.success)]_vars

\* C39: when add_node, create_cluster or connect_nodes runs at the same
\* time as a render_diagram on the same session and returns success, the
\* node, cluster or connection it added is part of the session, which is
\* still in the registry, or part of the structure that render returned:
\* it is never held only by a session that has left the registry.
C39_AddedElementNotLost ==
  [][\A t \in Threads :
       (pc[t] \notin {"idle", "rendering", "rendered"} /\ pc'[t] = "idle"
          /\ ret'.success) =>
         LET diagram_id == local[t].diagram_id
             a == local[t].call.args
             op == local[t].call.op
             InSession(diagram_data) ==
               CASE op = "add_node" -> a[1] \in DictKeys(diagram_data.nodes)
                 [] op = "create_cluster" -> a[1] \in DictKeys(diagram_data.clusters)
                 [] op = "connect_nodes" ->
                      \E i \in 1..Len(diagram_data.connections) :
                        diagram_data.connections[i] = ConnectionInfo(a[1], a[2], a[3], a[4])
             InStructure(structure) ==
               CASE op = "add_node" ->
                      \E i \in 1..Len(structure.nodes) : structure.nodes[i].id = a[1]
                 [] op = "create_cluster" ->
                      \E i \in 1..Len(structure.clusters) : structure.clusters[i].id = a[1]
                 [] op = "connect_nodes" ->
                      \E i \in 1..Len(structure.connections) :
                        structure.connections[i] = ConnectionInfo(a[1], a[2], a[3], a[4])
         IN  \/ diagram_id \in registry' /\ InSession(heap'[diagram_id])
             \/ /\ ret.op = "render_diagram"
                /\ ret.success
                /\ ret.diagram_id = diagram_id
                /\ InStructure(ret.result.structure)]_vars
====
